---- MODULE Spec2Model ----
(***************************************************************************)
(* A model of ukbutils: the UKB_DataDict class (UKB_data_dict.py), which   *)
(* parses a ukbconv HTML data dictionary lazily and keeps a bounded cache  *)
(* of encoding tables, the type resolution of get_translation_dict.py, the *)
(* type tables of ukb_tsv_to_parquet.py and the capture of utils.py.       *)
(*                                                                         *)
(* Methods are modelled as operators on a "world" record w that holds the  *)
(* object's fields, the file store, and the I/O events, the raised error   *)
(* and the return value of the call in progress.  An action runs one       *)
(* public call from the current state and commits the resulting world.     *)
(***************************************************************************)
EXTENDS Integers, Sequences, FiniteSets, TLC

VARIABLES
    _path_to_html,          \* self._path_to_html
    _html_file_content,     \* self._html_file_content (None or the parsed document)
    _main_table,            \* self._main_table (None or the processed main table)
    _info,                  \* self._info (None or the info dict)
    _data_encoding_tables,  \* self._data_encoding_tables: encoding id -> table
    _saved_encodings,       \* self._saved_encodings: recency list, most recent last
    _encoding_table_limit,  \* self._encoding_table_limit
    documents,              \* environment: path -> HTML file on disk
    files,                  \* environment: encoding id -> encoding file at the templated path
    accessed,               \* history: the cached ids in order of their last successful get
    last,                   \* the last call on the object: operation, argument, outcome
    sys_streams,            \* sys.stdout, sys.stderr and the capture() contexts in progress
    default_dtype_dict      \* the module's DEFAULT_DTYPE_DICT (ukb_tsv_to_parquet.py)

vars == <<_path_to_html, _html_file_content, _main_table, _info,
          _data_encoding_tables, _saved_encodings, _encoding_table_limit,
          documents, files, accessed, last, sys_streams, default_dtype_dict>>

----------------------------------------------------------------------------
(* Bounds of the model. *)

\* Largest cache capacity a call may set.
MaxLimit == 3

\* Largest max_num_categories a call passes.
MaxNumCategories == 3

\* The numbers of categories up to this one are all tried.
MaxSmallCategories == 300

\* The largest power of two tried as a number of categories.
MaxExponent == 29

----------------------------------------------------------------------------
(* Python values. *)

\* None / a present value, for lazily computed fields and nullable cells.
None == {}
Some(v) == {v}
The(o) == CHOOSE v \in o : TRUE

Min(S) == CHOOSE x \in S : \A y \in S : x <= y

\* dict helpers: a dict is a function on its key set.
DictDel(d, k) == [x \in (DOMAIN d) \ {k} |-> d[x]]
DictSet(d, k, v) == [x \in (DOMAIN d) \cup {k} |-> IF x = k THEN v ELSE d[x]]
EmptyDict == [x \in {} |-> {}]

\* list.remove(x): drop the first occurrence of x.
ListRemove(s, x) ==
    LET i == Min({j \in 1..Len(s) : s[j] = x})
    IN  SubSeq(s, 1, i - 1) \o SubSeq(s, i + 1, Len(s))

InList(s, x) == \E j \in 1..Len(s) : s[j] = x

----------------------------------------------------------------------------
(* Text.  A description is a sequence of tokens: words, digit runs (\d+)   *)
(* and "<kind>-valued" words.                                              *)

Wd(s) == [k |-> "w", s |-> s, n |-> 0]
Dg(n) == [k |-> "d", s |-> "", n |-> n]
Vl(s) == [k |-> "v", s |-> s, n |-> 0]

\* Words of the vocabulary that contain the substring "hierarchical".
ContainsHierarchical == {"hierarchical", "non-hierarchical"}

\* r"Uses data-coding (\d+)" matches at token i.
MatchesCoding(d, i) ==
    /\ i + 2 <= Len(d)
    /\ d[i] = Wd("Uses") /\ d[i + 1] = Wd("data-coding") /\ d[i + 2].k = "d"

\* r"Uses data-coding \d+ comprises (\d+)" matches at token i.
MatchesComprises(d, i) ==
    /\ MatchesCoding(d, i)
    /\ i + 4 <= Len(d)
    /\ d[i + 3] = Wd("comprises") /\ d[i + 4].k = "d"

\* r"Uses data-coding \d+ comprises \d+ (\w+)-valued" matches at token i.
MatchesValued(d, i) ==
    /\ MatchesComprises(d, i)
    /\ i + 5 <= Len(d)
    /\ d[i + 5].k = "v"

\* Faulty variant: the number of members is the number after "comprises",
\* whether or not a coding is named before it.
ExtractNumMembersAnywhere(d) ==
    LET S == {i \in 1..(Len(d) - 1) : d[i] = Wd("comprises") /\ d[i + 1].k = "d"}
    IN  IF S = {} THEN None ELSE Some(d[Min(S) + 1].n)

\* Series.str.extract: the capture of the first match, NaN when there is none.
ExtractCodingId(d) ==
    LET S == {i \in 1..Len(d) : MatchesCoding(d, i)}
    IN  IF S = {} THEN None ELSE Some(d[Min(S) + 2].n)

ExtractNumMembers(d) ==
    LET S == {i \in 1..Len(d) : MatchesComprises(d, i)}
    IN  IF S = {} THEN None ELSE Some(d[Min(S) + 4].n)

\* Faulty variant: the kind is the first "<kind>-valued" word, wherever it
\* stands.
ExtractEncodingTypeAnywhere(d) ==
    LET S == {i \in 1..Len(d) : d[i].k = "v"}
    IN  IF S = {} THEN None ELSE Some(d[Min(S)].s)

ExtractEncodingType(d) ==
    LET S == {i \in 1..Len(d) : MatchesValued(d, i)}
    IN  IF S = {} THEN None ELSE Some(d[Min(S) + 5].s)

\* Series.str.contains("hierarchical")
StrContainsHierarchical(d) ==
    \E i \in 1..Len(d) : d[i].k = "w" /\ d[i].s \in ContainsHierarchical

----------------------------------------------------------------------------
(* The documents on disk.  A path is <<stem, extension>>; a document is a  *)
(* sequence of HTML tables: the info block, the main table, then the       *)
(* embedded coding tables, each with a summary "Coding <id>".              *)

PathA == <<"A", "html">>
PathB == <<"B", "html">>
PathTxt == <<"C", "txt">>
PathUnreadable == <<"U", "html">>
Paths == {PathA, PathB, PathTxt, PathUnreadable}

Summary(kind, id) == [kind |-> kind, id |-> id]

RawRow(col, udi, count, type, desc) ==
    [Column |-> col, UDI |-> udi, Count |-> count, Type |-> type, Description |-> desc]

CodingRef(id, n, kind) ==
    <<Wd("Uses"), Wd("data-coding"), Dg(id), Wd("comprises"), Dg(n), Vl(kind), Wd("members")>>

CatSingle == <<"Categorical", "(single)">>

InfoTable(date, ncols) ==
    [summary |-> Summary("Info", 0),
     rows |-> << <<"Date Extracted:", date>>, <<"Data columns:", ncols>> >>]

CodingTable(id, body) ==
    [summary |-> Summary("Coding", id), rows |-> body]

HierRef(id, n, kind) == CodingRef(id, n, kind) \o <<Wd("hierarchical")>>

\* A coding reference that does not say what kind of values the coding has.
CountOnlyRef(id, n) ==
    <<Wd("Uses"), Wd("data-coding"), Dg(id), Wd("comprises"), Dg(n), Wd("members")>>

\* Coding 7 is flat, codings 8, 11, 12 and 13 are flat with no embedded table,
\* coding 9 is hierarchical by its first row (a later row does not say so),
\* coding 10 is flat by its first row (a later row says hierarchical).  The
\* codings 11 and 12 have date values ("ERROR"); field 43 is an integer field
\* that refers to a coding; field 60 is categorical without a coding and field
\* 61 with a coding of unstated kind; the type of field 70 and the value kind of
\* coding 14 are in no default type table; the fields 21-0.0 and 21-1.0 have one
\* description, 22-0.0 and 22-1.0 have two.
DocA ==
    [readable |-> TRUE,
     tables |-> <<
        InfoTable("2023-01-01", "17"),
        [summary |-> Summary("Main", 0),
         rows |-> <<
            RawRow(0, <<"eid">>, Some(500), <<"Sequence">>, <<Wd("ID")>>),
            RawRow(1, <<"19", "0.0">>, Some(400), CatSingle, <<Wd("Heel")>> \o CodingRef(7, 3, "Integer")),
            RawRow(2, <<"21", "0.0">>, Some(300), CatSingle, <<Wd("Weight")>> \o HierRef(9, 3, "Integer")),
            RawRow(3, <<"21", "1.0">>, Some(200), CatSingle, <<Wd("Weight")>> \o HierRef(9, 3, "Integer")),
            RawRow(4, <<"22", "0.0">>, Some(200), CatSingle, <<Wd("Height")>> \o CodingRef(9, 3, "Integer")),
            RawRow(5, <<"54", "0.0">>, Some(100), CatSingle, <<Wd("Centre")>> \o CodingRef(10, 2, "Integer")),
            RawRow(6, <<"55", "0.0">>, Some(100), CatSingle, <<Wd("Centre")>> \o HierRef(10, 2, "Integer")),
            RawRow(7, <<"40", "0.0">>, None, CatSingle, <<Wd("Cause")>> \o CodingRef(8, 4, "String")),
            RawRow(8, <<"53", "0.0">>, Some(90), <<"Date">>, <<Wd("Attended")>>),
            RawRow(9, <<"41", "0.0">>, Some(80), CatSingle, <<Wd("Onset")>> \o CodingRef(11, 4, "ERROR")),
            RawRow(10, <<"42", "0.0">>, Some(70), CatSingle, <<Wd("Diagnosed")>> \o CodingRef(12, 2, "ERROR")),
            RawRow(11, <<"43", "0.0">>, Some(60), <<"Integer">>, <<Wd("Year")>> \o CodingRef(11, 4, "ERROR")),
            RawRow(12, <<"60", "0.0">>, Some(50), CatSingle, <<Wd("Sex")>>),
            RawRow(13, <<"61", "0.0">>, Some(40), CatSingle, <<Wd("Job")>> \o CountOnlyRef(13, 4)),
            RawRow(14, <<"70", "0.0">>, Some(30), <<"Records">>, <<Wd("Scan")>>),
            RawRow(15, <<"71", "0.0">>, Some(20), CatSingle, <<Wd("Device")>> \o CodingRef(14, 2, "Binary")),
            RawRow(16, <<"22", "1.0">>, Some(10), CatSingle, <<Wd("Stature")>> \o CodingRef(9, 3, "Integer"))
         >>],
        CodingTable(7, <<"A7">>),
        CodingTable(9, <<"A9">>),
        CodingTable(10, <<"A10">>),
        CodingTable(14, <<"A14">>)
     >>]

\* In the second document coding 9 is flat by its first row; codings 8 and 10
\* do not occur.
DocB ==
    [readable |-> TRUE,
     tables |-> <<
        InfoTable("2024-06-30", "4"),
        [summary |-> Summary("Main", 0),
         rows |-> <<
            RawRow(0, <<"eid">>, Some(900), <<"Sequence">>, <<Wd("ID")>>),
            RawRow(1, <<"19", "0.0">>, Some(800), CatSingle, <<Wd("Heel")>> \o CodingRef(7, 6, "Integer")),
            RawRow(2, <<"22", "0.0">>, Some(700), CatSingle, <<Wd("Height")>> \o CodingRef(9, 3, "Integer")),
            RawRow(3, <<"21", "0.0">>, Some(600), CatSingle, <<Wd("Weight")>> \o HierRef(9, 3, "Integer"))
         >>],
        CodingTable(7, <<"B7">>),
        CodingTable(9, <<"B9">>)
     >>]

\* A file that is no ukbconv data dictionary (wrong extension, or unreadable).
DocOther(readable) == [readable |-> readable, tables |-> <<>>]

Documents ==
    [p \in Paths |->
        IF p = PathA THEN DocA
        ELSE IF p = PathB THEN DocB
        ELSE IF p = PathTxt THEN DocOther(TRUE)
        ELSE DocOther(FALSE)]

----------------------------------------------------------------------------
(* The encoding files at encoding_file_template.format(id).  A file's text *)
(* is a sequence of phrases; its table has a header row of column names.   *)

InternalErrorPhrase == "internal error prevents download of coding"

NoFile == [exists |-> FALSE, readable |-> FALSE, text |-> <<>>, columns |-> <<>>]

File(readable, text, columns) ==
    [exists |-> TRUE, readable |-> readable, text |-> text, columns |-> columns]

FileColumns == <<"coding", "meaning", "node_id", "parent_id", "selectable">>

\* A well-formed download: seven boilerplate lines, then the table.
GoodText == <<"boilerplate", "rows">>
\* What the showcase server answers when it fails.
SorryText == <<"Sorry,", InternalErrorPhrase>>
\* A table whose text mentions the phrase without the leading "Sorry, ".
BareText == <<"boilerplate", InternalErrorPhrase, "rows">>

FileTexts == {GoodText, SorryText, BareText}

ColumnsOf(text) == IF text = SorryText THEN <<>> ELSE FileColumns

\* Encoding ids whose file the environment rewrites: the hierarchical coding.
FileIds == {9}

\* What the environment leaves at the path: nothing, a file without read
\* access, or a readable file.
FileStates ==
    {NoFile, File(FALSE, SorryText, <<>>)}
        \cup {File(TRUE, t, ColumnsOf(t)) : t \in FileTexts}

\* What one run of curl leaves at the destination: nothing, or a readable file.
DownloadOutcomes ==
    {NoFile} \cup {File(TRUE, t, ColumnsOf(t)) : t \in FileTexts}

\* '"Sorry, internal error prevents download of coding" in file_content'
HasSorryMarker(text) ==
    \E i \in 1..Len(text) - 1 : text[i] = "Sorry," /\ text[i + 1] = InternalErrorPhrase

----------------------------------------------------------------------------
(* Errors.  An error is the chain of exceptions, outermost first: the      *)
(* raised one, then its __cause__.                                         *)

E_BAD_PATH == "ValueError: Path must be an valid HTML file with read access"
E_BAD_LIMIT == "ValueError: Encoding table limit must be a positive integer"
E_INVALID_ID_DOWNLOAD == "ValueError: Invalid encoding ID"
E_INVALID_ID == "ValueError: Encoding ID not found in main table"
E_NO_READ_ACCESS == "ValueError: File with encoding table does not have read access"
E_FILE_NOT_FOUND == "FileNotFoundError"
E_SERVER_ERROR == "ValueError: UK Biobank website returned an internal server error"
E_NOT_IN_HTML == "ValueError: No encoding table found for encoding"
E_NO_TABLE_READ == "ValueError: No encoding table could be read for encoding id"
E_KEY == "KeyError"
E_OS == "OSError: open(path_to_html)"
E_NOT_IN_LIST == "ValueError: list.remove(x): x not in list"
E_ITEM == "ValueError: can only convert an array of size 1 to a Python scalar"

----------------------------------------------------------------------------
(* The world of one call. *)

World ==
    [path |-> _path_to_html, html |-> _html_file_content, main |-> _main_table,
     info |-> _info, tables |-> _data_encoding_tables, saved |-> _saved_encodings,
     limit |-> _encoding_table_limit, files |-> files,
     events |-> <<>>, err |-> <<>>, ret |-> <<>>]

Failed(w) == w.err # <<>>
Raise(w, e) == [w EXCEPT !.err = <<e>>, !.ret = <<>>]
\* raise ... from e
RaiseFrom(w, e) == [w EXCEPT !.err = <<e>> \o @, !.ret = <<>>]
Return(w, v) == [w EXCEPT !.ret = <<v>>]
\* The events of a call, in order: what it read, parsed, fetched and dropped.
IO(w, ev, id) == [w EXCEPT !.events = Append(@, [ev |-> ev, id |-> id])]

----------------------------------------------------------------------------
(* UKB_DataDict: properties.  A method that goes on after a nested call is *)
(* written as the nested call handed to the rest of the method.            *)

\* Faulty variant of the setter: the new path is taken and the parsed document
\* dropped, but the encoding cache is left as it was.
set_path_to_html_keeping_cache(w, path) ==
    IF path # w.path
    THEN IF documents[path].readable /\ path[2] = "html"
         THEN IO([w EXCEPT !.path = path, !.html = None, !.main = None, !.info = None],
                 "reset", Len(w.saved))
         ELSE Raise(w, E_BAD_PATH)
    ELSE w

\* Faulty variant of the setter: the parsed document and the cache are dropped
\* before the path is looked at.
set_path_to_html_resetting_first(w, path) ==
    IF path # w.path
    THEN IF documents[path].readable /\ path[2] = "html"
         THEN IO([w EXCEPT !.path = path, !.html = None, !.main = None, !.info = None,
                           !.tables = EmptyDict, !.saved = <<>>],
                 "reset", Len(w.saved))
         ELSE Raise([w EXCEPT !.html = None, !.main = None, !.info = None,
                              !.tables = EmptyDict, !.saved = <<>>],
                    E_BAD_PATH)
    ELSE w

\* path_to_html.setter
set_path_to_html(w, path) ==
    IF path # w.path
    THEN IF documents[path].readable /\ path[2] = "html"
         THEN IO([w EXCEPT !.path = path, !.html = None, !.main = None, !.info = None,
                           !.tables = EmptyDict, !.saved = <<>>],
                 "reset", Len(w.saved))
         ELSE Raise(w, E_BAD_PATH)
    ELSE w

\* html_file_content: BeautifulSoup(open(path)), kept once read.
html_file_content(w) ==
    IF w.html = None
    THEN IF documents[w.path].readable
         THEN IO([w EXCEPT !.html = Some(documents[w.path].tables)], "open_html", 0)
         ELSE Raise(w, E_OS)
    ELSE w

\* _process_main_table: the derived columns of one row.
ProcessRow(r) ==
    [Column |-> r.Count,
     UDI |-> r.UDI,
     Count |-> r.Count,
     Type |-> r.Type,
     Description |-> r.Description,
     Encoding_id |-> ExtractCodingId(r.Description),
     Encoding_num_members |-> ExtractNumMembers(r.Description),
     Encoding_type |-> ExtractEncodingType(r.Description),
     Is_hierarchical |-> StrContainsHierarchical(r.Description),
     Is_categorical |-> r.Type[1] = "Categorical",
     Has_encoding |-> ExtractCodingId(r.Description) # None]

_process_main_table(rows) == [i \in 1..Len(rows) |-> ProcessRow(rows[i])]

\* _get_main_from_html: findAll("table", limit=2)[1]
_get_main_from_html(html) == html[2].rows

_parse_main_table(html) == _process_main_table(_get_main_from_html(html))

\* main_table, on the world w that has read the document: parse and keep.
SetMainTable(w) ==
    IF Failed(w) THEN w
    ELSE IO([w EXCEPT !.main = Some(_parse_main_table(The(w.html)))], "parse_main", 0)

\* Faulty variant: the main table is parsed anew on every access.
main_table_parsed_anew(w) == SetMainTable(html_file_content(w))

\* main_table: parsed on first access.
main_table(w) ==
    IF w.main = None THEN SetMainTable(html_file_content(w)) ELSE w

\* info: the two rows of the first table, as a dict.
InfoDict(html) ==
    [k \in {html[1].rows[1][1], html[1].rows[2][1]} |->
        IF k = html[1].rows[1][1] THEN html[1].rows[1][2] ELSE html[1].rows[2][2]]

SetInfo(w) ==
    IF Failed(w) THEN w
    ELSE IO([w EXCEPT !.info = Some(InfoDict(The(w.html)))], "parse_info", 0)

info(w) ==
    IF w.info = None THEN SetInfo(html_file_content(w)) ELSE w

----------------------------------------------------------------------------
(* UKB_DataDict: the encoding cache. *)

\* _remove_oldest_if_needed_encoding_cache: the while loop.
RECURSIVE _remove_oldest_if_needed_encoding_cache(_)
_remove_oldest_if_needed_encoding_cache(w) ==
    IF Len(w.saved) > w.limit
    THEN IF w.saved[1] \in DOMAIN w.tables
         THEN _remove_oldest_if_needed_encoding_cache(
                  IO([w EXCEPT !.tables = DictDel(@, w.saved[1]), !.saved = Tail(@)],
                     "evict", w.saved[1]))
         ELSE Raise(w, E_KEY)
    ELSE w

\* Faulty variant of the setter: the limit is stored and nothing is evicted.
set_encoding_table_limit_without_eviction(w, limit) ==
    IF limit <= 0
    THEN Raise(w, E_BAD_LIMIT)
    ELSE [w EXCEPT !.limit = limit]

\* encoding_table_limit.setter
set_encoding_table_limit(w, limit) ==
    IF limit <= 0
    THEN Raise(w, E_BAD_LIMIT)
    ELSE _remove_oldest_if_needed_encoding_cache([w EXCEPT !.limit = limit])

\* A value given as a limit: an object of a Python type.  n is the number an
\* int or float stands for, the digits of a str, 1 and 0 for True and False.
Value(type, n) == [type |-> type, n |-> n]

\* isinstance(limit, int): bool is a subclass of int.
IsInstanceInt(limit) == limit.type \in {"int", "bool"}

\* Faulty variant: any value that is not a number of 0 or less is taken.
encoding_table_limit_of_any_type(w, limit) ==
    set_encoding_table_limit(w, limit.n)

\* encoding_table_limit.setter, for a limit of any type: "not isinstance(limit,
\* int) or limit <= 0" compares only an int.
encoding_table_limit_setter(w, limit) ==
    IF ~ IsInstanceInt(limit)
    THEN Raise(w, E_BAD_LIMIT)
    ELSE set_encoding_table_limit(w, limit.n)

\* The attributes of an object before __init__ has set them.
NoPath == <<"", "">>
NoLimit == 0
Blank(w) ==
    [w EXCEPT !.path = NoPath, !.html = None, !.main = None, !.info = None,
              !.tables = EmptyDict, !.saved = <<>>, !.limit = NoLimit]

\* __init__ after self.path_to_html = path: the empty cache, then the limit.
InitLimit(w, limit) ==
    IF Failed(w)
    THEN w
    ELSE encoding_table_limit_setter(
             [w EXCEPT !.html = None, !.main = None, !.info = None,
                       !.tables = EmptyDict, !.saved = <<>>],
             limit)

\* UKB_DataDict.__init__(path, encoding_table_limit=limit)
__init__(w, path, limit) == InitLimit(set_path_to_html(Blank(w), path), limit)

\* obj = UKB_DataDict(path, encoding_table_limit=limit): the object is the new
\* one, or stays the one it was when __init__ raises.
Constructed(w, new) ==
    IF Failed(new) THEN [w EXCEPT !.err = new.err, !.events = new.events] ELSE new

\* Faulty variant: a hit leaves the recency list as it is (first in, first out).
_update_saved_encoding_order_unmoved(w, encoding_id) ==
    IF InList(w.saved, encoding_id) THEN w ELSE Raise(w, E_NOT_IN_LIST)

\* _update_saved_encoding_order
_update_saved_encoding_order(w, encoding_id) ==
    IF InList(w.saved, encoding_id)
    THEN [w EXCEPT !.saved = Append(ListRemove(@, encoding_id), encoding_id)]
    ELSE Raise(w, E_NOT_IN_LIST)

\* _encoding_id_is_valid (on a world whose main table is loaded)
_encoding_id_is_valid(w, encoding_id) ==
    \E i \in DOMAIN The(w.main) : The(w.main)[i].Encoding_id = Some(encoding_id)

\* Faulty variant: any row with this encoding id, not the first, decides.
_encoding_is_hierarchical_any_row(w, encoding_id) ==
    \E i \in DOMAIN The(w.main) :
        The(w.main)[i].Encoding_id = Some(encoding_id) /\ The(w.main)[i].Is_hierarchical

\* _encoding_is_hierarchical: .iloc[0] of the rows with this encoding id
_encoding_is_hierarchical(w, encoding_id) ==
    The(w.main)[Min({i \in DOMAIN The(w.main) :
                        The(w.main)[i].Encoding_id = Some(encoding_id)})].Is_hierarchical

\* _download_encoding_table after self.main_table is read: the validity check
\* and the curl run; deposit is what curl leaves at the destination.
DownloadChecked(w, encoding_id, deposit) ==
    IF ~ _encoding_id_is_valid(w, encoding_id)
    THEN Raise(w, E_INVALID_ID_DOWNLOAD)
    ELSE IO([w EXCEPT !.files[encoding_id] = IF deposit.exists THEN deposit ELSE @],
            "download", encoding_id)

\* _download_encoding_table
_download_encoding_table(w, encoding_id, deposit) ==
    DownloadChecked(main_table(w), encoding_id, deposit)

\* pd.read_table(skiprows=7) and the rename of "coding" to "Code"
TableFromFile(encoding_id, f) ==
    [id |-> encoding_id, src |-> "file",
     columns |-> [i \in 1..Len(f.columns) |->
                    IF f.columns[i] = "coding" THEN "Code" ELSE f.columns[i]],
     rows |-> f.text]

\* Faulty variant: the server's error answer is reported and the file is kept.
ReadEncodingFileKeepingFile(w, encoding_id) ==
    IF Failed(w) THEN w
    ELSE IF ~ w.files[encoding_id].exists
    THEN Raise(w, E_FILE_NOT_FOUND)
    ELSE IF HasSorryMarker(w.files[encoding_id].text)
    THEN Raise(IO(w, "read_file", encoding_id), E_SERVER_ERROR)
    ELSE Return(IO(IO(w, "read_file", encoding_id), "read_table", encoding_id),
                TableFromFile(encoding_id, w.files[encoding_id]))

\* _get_encoding_table_from_file from 'with open(encoding_filename)' on.
ReadEncodingFile(w, encoding_id) ==
    IF Failed(w) THEN w
    ELSE IF ~ w.files[encoding_id].exists
    THEN Raise(w, E_FILE_NOT_FOUND)
    ELSE IF HasSorryMarker(w.files[encoding_id].text)
    THEN Raise(IO(IO([w EXCEPT !.files[encoding_id] = NoFile], "read_file", encoding_id),
                  "remove_file", encoding_id),
               E_SERVER_ERROR)
    ELSE Return(IO(IO(w, "read_file", encoding_id), "read_table", encoding_id),
                TableFromFile(encoding_id, w.files[encoding_id]))

\* Faulty variant: the file is fetched whether or not it is there already.
_get_encoding_table_from_file_fetching_anew(w, encoding_id, deposit) ==
    ReadEncodingFile(_download_encoding_table(w, encoding_id, deposit), encoding_id)

\* _get_encoding_table_from_file
_get_encoding_table_from_file(w, encoding_id, deposit) ==
    ReadEncodingFile(
        IF ~ w.files[encoding_id].exists
        THEN _download_encoding_table(w, encoding_id, deposit)
        ELSE IF ~ w.files[encoding_id].readable
             THEN Raise(w, E_NO_READ_ACCESS)
             ELSE w,
        encoding_id)

\* find("table", summary="Coding <id>") and pd.read_html of what is found.
FindCodingTable(w, encoding_id) ==
    IF \E i \in 1..Len(The(w.html)) : The(w.html)[i].summary = Summary("Coding", encoding_id)
    THEN Return(IO(w, "read_html_table", encoding_id),
                [id |-> encoding_id, src |-> "html",
                 columns |-> <<"Code", "Meaning">>,
                 rows |-> The(w.html)[Min({i \in 1..Len(The(w.html)) :
                     The(w.html)[i].summary = Summary("Coding", encoding_id)})].rows])
    ELSE Raise(w, E_NOT_IN_HTML)

\* _get_encoding_table_from_html
_get_encoding_table_from_html(w, encoding_id) ==
    FindCodingTable(html_file_content(w), encoding_id)

\* Faulty variant: no validity check; an id the main table does not hold is
\* looked up in the file store.
RetrieveUnchecked(w, encoding_id, deposit) ==
    IF _encoding_id_is_valid(w, encoding_id) /\ ~ _encoding_is_hierarchical(w, encoding_id)
    THEN _get_encoding_table_from_html(w, encoding_id)
    ELSE _get_encoding_table_from_file(w, encoding_id, deposit)

\* _retrieve_encoding_table after self.main_table is read.
RetrieveChecked(w, encoding_id, deposit) ==
    IF ~ _encoding_id_is_valid(w, encoding_id)
    THEN Raise(w, E_INVALID_ID)
    ELSE IF _encoding_is_hierarchical(w, encoding_id)
         THEN _get_encoding_table_from_file(w, encoding_id, deposit)
         ELSE _get_encoding_table_from_html(w, encoding_id)

\* _retrieve_encoding_table
_retrieve_encoding_table(w, encoding_id, deposit) ==
    IF Failed(main_table(w)) THEN main_table(w)
    ELSE RetrieveChecked(main_table(w), encoding_id, deposit)

\* Faulty variant: the table is stored and the recency list is left as it is.
InsertRetrievedUnlisted(w, encoding_id) ==
    IF Failed(w) THEN w
    ELSE _remove_oldest_if_needed_encoding_cache(
             [w EXCEPT !.tables = DictSet(@, encoding_id, w.ret[1]),
                       !.ret = <<>>])

\* _add_encoding_table_to_cache once the table is retrieved (w.ret).
InsertRetrieved(w, encoding_id) ==
    IF Failed(w) THEN w
    ELSE _remove_oldest_if_needed_encoding_cache(
             [w EXCEPT !.tables = DictSet(@, encoding_id, w.ret[1]),
                       !.saved = Append(@, encoding_id),
                       !.ret = <<>>])

\* Faulty variant: the id is appended to the recency list before the table is
\* retrieved, and stays there when the retrieval fails.
_add_encoding_table_to_cache_listing_first(w, encoding_id, deposit) ==
    LET got == _retrieve_encoding_table(w, encoding_id, deposit)
    IN  IF Failed(got)
        THEN [got EXCEPT !.saved = Append(@, encoding_id)]
        ELSE InsertRetrieved(got, encoding_id)

\* _add_encoding_table_to_cache
_add_encoding_table_to_cache(w, encoding_id, deposit) ==
    InsertRetrieved(_retrieve_encoding_table(w, encoding_id, deposit), encoding_id)

\* Faulty variant: the error of the retrieval is let through as it is.
LetFailureThrough(w) == w

\* get_encoding_table: 'except Exception as e: raise ValueError(...) from e'
WrapFailure(w) == IF Failed(w) THEN RaiseFrom(w, E_NO_TABLE_READ) ELSE w

\* get_encoding_table: 'return self._data_encoding_tables[encoding_id]'
ReturnCached(w, encoding_id) ==
    IF Failed(w) THEN w
    ELSE IF encoding_id \in DOMAIN w.tables
    THEN Return(w, w.tables[encoding_id])
    ELSE Raise(w, E_KEY)

\* Faulty variant: the cache is not consulted; every call retrieves and inserts.
get_encoding_table_uncached(w, encoding_id, deposit) ==
    ReturnCached(WrapFailure(_add_encoding_table_to_cache(w, encoding_id, deposit)),
                 encoding_id)

\* get_encoding_table
get_encoding_table(w, encoding_id, deposit) ==
    ReturnCached(
        IF encoding_id \notin DOMAIN w.tables
        THEN WrapFailure(_add_encoding_table_to_cache(w, encoding_id, deposit))
        ELSE _update_saved_encoding_order(w, encoding_id),
        encoding_id)

----------------------------------------------------------------------------
(* UKB_DataDict: fields by id.  A field id is the id split at "-": the     *)
(* UDI "21-0.0" is <<"21", "0.0">>, its first part "21" is <<"21">>.        *)

E_FIELD_NOT_IN_UDI == "ValueError: Given field_id not found in the UDI column of the main table"
E_FIELD_NOT_IN_PART == "ValueError: Given field_id not found as part of a UDI"
E_NAME_NOT_IN_UDI == "ValueError: Field ID not found in the UDI column of the main table"
E_NAME_NOT_IN_PART == "ValueError: Field ID not found as part of a UDI"
E_AMBIGUOUS == "ValueError: Ambiguous field_id: multiple non-identical human-readable names found"

\* self.main_table["UDI"].str.split("-", expand=True)[0]
FirstPart(udi) == <<udi[1]>>

\* Faulty variant: a field id matches a UDI also by the UDI's first part, and
\* the first part also by the whole UDI, whatever is_udi says.
FieldRowsByEither(w, field_id, is_udi) ==
    {i \in DOMAIN The(w.main) :
        The(w.main)[i].UDI = field_id \/ FirstPart(The(w.main)[i].UDI) = field_id}

\* The rows that field_id selects: main_table["UDI"] == field_id, or
\* split_udi_id == field_id.
FieldRows(w, field_id, is_udi) ==
    {i \in DOMAIN The(w.main) :
        IF is_udi
        THEN The(w.main)[i].UDI = field_id
        ELSE FirstPart(The(w.main)[i].UDI) = field_id}

\* get_encoding_table(enc_id) for the Encoding_id cell of a row: the NaN of a
\* field without coding is equal to no id of the main table.
EncodingTableOfCell(w, cell, deposit) ==
    IF cell = None
    THEN RaiseFrom(Raise(w, E_INVALID_ID), E_NO_TABLE_READ)
    ELSE get_encoding_table(w, The(cell), deposit)

\* get_encoding_by_data_field after self.main_table is read.
EncodingOfField(w, field_id, is_udi, deposit) ==
    IF FieldRows(w, field_id, is_udi) = {}
    THEN Raise(w, IF is_udi THEN E_FIELD_NOT_IN_UDI ELSE E_FIELD_NOT_IN_PART)
    ELSE IF is_udi /\ Cardinality(FieldRows(w, field_id, is_udi)) # 1
    THEN Raise(w, E_ITEM)
    ELSE EncodingTableOfCell(
             w, The(w.main)[Min(FieldRows(w, field_id, is_udi))].Encoding_id, deposit)

\* get_encoding_by_data_field
get_encoding_by_data_field(w, field_id, is_udi, deposit) ==
    EncodingOfField(main_table(w), field_id, is_udi, deposit)

\* description.split(" Uses data-coding", 1)[0]
StripCoding(d) ==
    IF \E i \in 2..(Len(d) - 1) : d[i] = Wd("Uses") /\ d[i + 1] = Wd("data-coding")
    THEN SubSeq(d, 1,
                Min({i \in 2..(Len(d) - 1) :
                        d[i] = Wd("Uses") /\ d[i + 1] = Wd("data-coding")}) - 1)
    ELSE d

\* Faulty variant: of several matching rows the first one gives the name,
\* whether or not the others agree.
NameOfFieldFirstMatch(w, field_id, is_udi) ==
    IF FieldRows(w, field_id, is_udi) = {}
    THEN Raise(w, IF is_udi THEN E_NAME_NOT_IN_UDI ELSE E_NAME_NOT_IN_PART)
    ELSE IF is_udi /\ Cardinality(FieldRows(w, field_id, is_udi)) # 1
    THEN Raise(w, E_ITEM)
    ELSE Return(w, StripCoding(The(w.main)[Min(FieldRows(w, field_id, is_udi))].Description))

\* get_human_readable_name after self.main_table is read.
NameOfField(w, field_id, is_udi) ==
    IF FieldRows(w, field_id, is_udi) = {}
    THEN Raise(w, IF is_udi THEN E_NAME_NOT_IN_UDI ELSE E_NAME_NOT_IN_PART)
    ELSE IF is_udi /\ Cardinality(FieldRows(w, field_id, is_udi)) # 1
    THEN Raise(w, E_ITEM)
    ELSE IF ~ is_udi /\ Cardinality({The(w.main)[i].Description :
                                        i \in FieldRows(w, field_id, is_udi)}) > 1
    THEN Raise(w, E_AMBIGUOUS)
    ELSE Return(w, StripCoding(The(w.main)[Min(FieldRows(w, field_id, is_udi))].Description))

\* get_human_readable_name
get_human_readable_name(w, field_id, is_udi) ==
    NameOfField(main_table(w), field_id, is_udi)

----------------------------------------------------------------------------
(* get_translation_dict.py: type descriptors and type configurations.      *)
(* A descriptor is a scalar type, a list such as ["Date", format], a       *)
(* pyarrow dictionary type or a pandas CategoricalDtype.                   *)

EXCEEDING_MAX_CAT_KEYWORD == "EXCEEDING MAX LEVELS OF CATEGORY"

Scalar(name) == [k |-> "scalar", name |-> name, index |-> 0, items |-> <<>>]
ListOf(items) == [k |-> "list", name |-> "", index |-> 0, items |-> items]
Keyword == [k |-> "keyword", name |-> EXCEEDING_MAX_CAT_KEYWORD, index |-> 0, items |-> <<>>]

\* pa.dictionary(index_type=pa.uint<index>(), value_type=value)
PaDictionary(index, value) ==
    [k |-> "dictionary", name |-> value.name, index |-> index, items |-> <<>>]

\* my_encoding_table["Code"].tolist(), of all rows or of the selectable ones.
Categories(table, selectable_only) ==
    <<table.src, IF selectable_only THEN "selectable" ELSE "all">> \o table.rows

\* pd.CategoricalDtype(categories=pd.Index(categories, dtype=dtype), ordered=False)
CategoricalDtype(categories, dtype) ==
    [k |-> "categorical", name |-> dtype.name, index |-> 0, items |-> categories]

\* A dict given by its (key, value) pairs.
DictOf(pairs) == [key \in {pr[1] : pr \in pairs} |-> (CHOOSE pr \in pairs : pr[1] = key)[2]]

DEFAULT_DTYPE_DICT ==
    [Type |-> DictOf({
        <<<<"Sequence">>, Scalar("int")>>,
        <<<<"Integer">>, Scalar("float")>>,
        <<<<"Continuous">>, Scalar("float")>>,
        <<<<"Text">>, Scalar("string")>>,
        <<<<"Date">>, ListOf(<<"Date", "%Y-%m-%d">>)>>,
        <<<<"Time">>, ListOf(<<"Date", "%Y-%m-%d %H:%M:%S">>)>>,
        <<<<"Compound">>, Scalar("string")>>,
        <<<<"Curve">>, Scalar("string")>>}),
     Encoding_type |-> DictOf({
        <<"Integer", Scalar("float")>>,
        <<"Real", Scalar("float")>>,
        <<"ERROR", ListOf(<<"Date", "%Y-%m-%d">>)>>,
        <<"String", Scalar("string")>>})]

DEFAULT_PA_SCHEMA_TYPE ==
    [Type |-> DictOf({
        <<<<"Sequence">>, Scalar("pa.int64")>>,
        <<<<"Integer">>, Scalar("pa.int64")>>,
        <<<<"Continuous">>, Scalar("pa.float64")>>,
        <<<<"Text">>, Scalar("pa.string")>>,
        <<<<"Date">>, Scalar("pa.date64")>>,
        <<<<"Time">>, Scalar("pa.timestamp[s]")>>,
        <<<<"Compound">>, Scalar("pa.string")>>,
        <<<<"Curve">>, Scalar("pa.string")>>}),
     Encoding_type |-> DictOf({
        <<"Integer", Scalar("pa.int64")>>,
        <<"Real", Scalar("pa.float64")>>,
        <<"ERROR", Scalar("pa.timestamp[s]")>>,
        <<"String", Scalar("pa.string")>>})]

DEFAULT_CATEGORICAL_COLUMNS == {<<"Categorical", "(single)">>, <<"Categorical", "(multiple)">>}

E_NA_AMBIGUOUS == "TypeError: boolean value of NA is ambiguous"
E_NO_NUM_MEMBERS == "ValueError: Trying to parse as categorical, but no Encoding_num_members"
E_SET_CATEGORIES == "ValueError: Something went wrong for setting categories"
E_MATH_DOMAIN == "ValueError: math domain error"
E_ATTRIBUTE == "AttributeError"
E_DTYPE == "TypeError: data type not understood"
E_NOT_IN_ENCODING == "ValueError: not present in given conversion_table_encoding"
E_NOT_IN_REGULAR == "ValueError: not present in given conversion_table_regular"
E_DICT_CHANGED == "RuntimeError: dictionary changed size during iteration"

\* A list whose first element is "Date".
IsDateList(d) == d.k = "list" /\ d.items[1] = "Date"

\* _find_date_types
_find_date_types(dtype_conversion_dict) ==
    {key \in DOMAIN dtype_conversion_dict : IsDateList(dtype_conversion_dict[key])}

----------------------------------------------------------------------------
(* _get_pyarrow_int_func_for_dict *)

\* The ceiling of the base-2 logarithm of n >= 1.
RECURSIVE CeilLog2(_)
CeilLog2(n) == IF n <= 1 THEN 0 ELSE 1 + CeilLog2((n + 1) \div 2)

\* math.ceil(math.log(n, 2)) in double precision: the quotient log(n)/log(2)
\* is exact enough up to 2^29, where it comes out just above 29.
CeilLogFloat(n) == IF n = 2^29 THEN 30 ELSE CeilLog2(n)

\* int.bit_length: the bits of the absolute value.
RECURSIVE BitLength(_)
BitLength(x) ==
    IF x < 0 THEN BitLength(0 - x)
    ELSE IF x = 0 THEN 0
    ELSE 1 + BitLength(x \div 2)

\* Faulty variant: the "- 1" is left out, so that an exact power of two takes
\* the next width.
bit_length_of_ceiling(num_of_categories) == 2^BitLength(CeilLogFloat(num_of_categories))

\* 2 ** (math.ceil(math.log(num_of_categories, 2)) - 1).bit_length()
bit_length(num_of_categories) == 2^BitLength(CeilLogFloat(num_of_categories) - 1)

\* The widths n for which pyarrow has a uint<n> constructor.
PaUintWidths == {8, 16, 32, 64}

\* _get_pyarrow_int_func_for_dict: the width of the constructor returned, as a
\* world with the width in ret, or the error raised.
_get_pyarrow_int_func_for_dict(w, num_of_categories) ==
    IF num_of_categories <= 0
    THEN Raise(w, E_MATH_DOMAIN)
    ELSE IF bit_length(num_of_categories) <= 8
    THEN Return(w, 8)
    ELSE IF bit_length(num_of_categories) \in PaUintWidths
    THEN Return(w, bit_length(num_of_categories))
    ELSE Raise(w, E_ATTRIBUTE)

----------------------------------------------------------------------------
(* get_translation_dict.py: the type of one column.  p holds the arguments *)
(* of the call: the conversion table, the categorical conversion function, *)
(* cat_cols, the maximum number of categories and what a fetch leaves.     *)

\* main_table[main_table["UDI"] == column_name]
EntryRows(w, column_name) ==
    {i \in DOMAIN The(w.main) : The(w.main)[i].UDI = column_name}

Entry(w, i) == The(w.main)[i]

\* _determine_categorical_type_pyarrow once the index constructor is chosen
\* (w.ret) or has failed: the lookup of the value type and pa.dictionary.
PaDictionaryOf(w, i, p) ==
    IF Failed(w)
    THEN RaiseFrom(w, E_SET_CATEGORIES)
    ELSE IF The(Entry(w, i).Encoding_type) \notin DOMAIN p.conversion_table.Encoding_type
    THEN RaiseFrom(Raise(w, E_KEY), E_SET_CATEGORIES)
    ELSE Return(w, PaDictionary(w.ret[1],
                    p.conversion_table.Encoding_type[The(Entry(w, i).Encoding_type)]))

\* _determine_categorical_type_pyarrow
_determine_categorical_type_pyarrow(w, i, p) ==
    PaDictionaryOf(
        _get_pyarrow_int_func_for_dict(w, The(Entry(w, i).Encoding_num_members)), i, p)

\* data_dict.get_encoding_table(encoding_id) has returned or raised.
TableGot(w) == IF Failed(w) THEN w ELSE IO(w, "encoding_table", w.ret[1].id)

\* _determine_categorical_type_dtype once the encoding table is there.
CategoricalDtypeOf(w, i, p) ==
    IF Failed(w) THEN w
    ELSE IF Entry(w, i).Is_hierarchical /\ ~ InList(w.ret[1].columns, "selectable")
    THEN Raise(w, E_KEY)
    ELSE IF ~ InList(w.ret[1].columns, "Code")
    THEN Raise(w, E_KEY)
    ELSE IF The(Entry(w, i).Encoding_type) \notin DOMAIN p.conversion_table.Encoding_type
    THEN Raise(w, E_KEY)
    ELSE IF p.conversion_table.Encoding_type[The(Entry(w, i).Encoding_type)].k # "scalar"
    THEN Raise(w, E_DTYPE)
    ELSE Return(w,
                CategoricalDtype(
                    Categories(w.ret[1], Entry(w, i).Is_hierarchical),
                    p.conversion_table.Encoding_type[The(Entry(w, i).Encoding_type)]))

\* _determine_categorical_type_dtype
_determine_categorical_type_dtype(w, i, p) ==
    CategoricalDtypeOf(
        TableGot(get_encoding_table(w, The(Entry(w, i).Encoding_id), p.deposit)), i, p)

\* conversion_function(main_table_entry, data_dict, conversion_table_encoding, num_members)
conversion_function(w, i, p) ==
    IF p.method = "pyarrow"
    THEN _determine_categorical_type_pyarrow(w, i, p)
    ELSE _determine_categorical_type_dtype(w, i, p)

\* Faulty variant: a coding with exactly categorical_max_size members is taken
\* as exceeding it.
_determine_categorical_type_below_max(w, i, p) ==
    IF Entry(w, i).Encoding_num_members = None
    THEN Raise(w, E_NA_AMBIGUOUS)
    ELSE IF Entry(w, i).Encoding_type = None
    THEN Raise(w, E_NO_NUM_MEMBERS)
    ELSE IF The(Entry(w, i).Encoding_num_members) < p.categorical_max_size
    THEN conversion_function(IO(w, "conversion_function", i), i, p)
    ELSE Return(IO(w, "exceeding", i), Keyword)

\* _determine_categorical_type: np.isnan(pd.NA) is pd.NA, which has no truth
\* value.
_determine_categorical_type(w, i, p) ==
    IF Entry(w, i).Encoding_num_members = None
    THEN Raise(w, E_NA_AMBIGUOUS)
    ELSE IF Entry(w, i).Encoding_type = None
    THEN Raise(w, E_NO_NUM_MEMBERS)
    ELSE IF The(Entry(w, i).Encoding_num_members) <= p.categorical_max_size
    THEN conversion_function(IO(w, "conversion_function", i), i, p)
    ELSE Return(IO(w, "exceeding", i), Keyword)

\* _determine_column_type: 'if my_type == EXCEEDING_MAX_CAT_KEYWORD'
TypeOrEncodingType(w, i, p) ==
    IF Failed(w) THEN w
    ELSE IF w.ret[1].k # "keyword"
    THEN w
    ELSE IF The(Entry(w, i).Encoding_type) \in DOMAIN p.conversion_table.Encoding_type
    THEN Return(w, p.conversion_table.Encoding_type[The(Entry(w, i).Encoding_type)])
    ELSE Raise(w, E_NOT_IN_ENCODING)

\* _determine_column_type for the single row i of the column.
TypeOfEntry(w, i, p) ==
    IF Entry(w, i).Type \in p.cat_cols
    THEN TypeOrEncodingType(_determine_categorical_type(w, i, p), i, p)
    ELSE IF Entry(w, i).Type \in DOMAIN p.conversion_table.Type
    THEN Return(w, p.conversion_table.Type[Entry(w, i).Type])
    ELSE Raise(w, E_NOT_IN_REGULAR)

\* _determine_column_type after self.main_table is read: Series.item() needs
\* exactly one row.
TypeOfColumn(w, column_name, p) ==
    IF Cardinality(EntryRows(w, column_name)) # 1
    THEN Raise(w, E_ITEM)
    ELSE TypeOfEntry(w, Min(EntryRows(w, column_name)), p)

\* _determine_column_type
_determine_column_type(w, column_name, p) ==
    TypeOfColumn(main_table(w), column_name, p)

\* get_d_type_dict: the condition of the comprehension, after self.main_table
\* is read.  A column left out has no type (ret is empty).
UnlessDateType(w, column_name, p) ==
    IF Cardinality(EntryRows(w, column_name)) # 1
    THEN Raise(w, E_ITEM)
    ELSE IF Entry(w, Min(EntryRows(w, column_name))).Type
                \in _find_date_types(p.conversion_table.Type)
    THEN [w EXCEPT !.ret = <<>>]
    ELSE _determine_column_type(w, column_name, p)

\* The next item of the dict comprehension.
ColumnItem(w, column_name, p) ==
    IF p.method = "pyarrow"
    THEN _determine_column_type(w, column_name, p)
    ELSE UnlessDateType(main_table(w), column_name, p)

\* The dict comprehension over use_columns, in order; the first error ends it.
RECURSIVE ColumnTypes(_, _, _, _)
RECURSIVE AddColumnType(_, _, _, _)
AddColumnType(w, types, use_columns, p) ==
    IF Failed(w) THEN w
    ELSE ColumnTypes(w,
                     IF w.ret = <<>> THEN types ELSE DictSet(types, Head(use_columns), w.ret[1]),
                     Tail(use_columns), p)

ColumnTypes(w, types, use_columns, p) ==
    IF use_columns = <<>>
    THEN Return(w, types)
    ELSE AddColumnType(ColumnItem(w, Head(use_columns), p), types, use_columns, p)

\* get_pa_schema
get_pa_schema(w, use_columns, pa_type_dict, cat_cols, max_num_categories) ==
    ColumnTypes(w, EmptyDict, use_columns,
                [conversion_table |-> pa_type_dict, method |-> "pyarrow",
                 cat_cols |-> cat_cols, categorical_max_size |-> max_num_categories,
                 deposit |-> NoFile])

\* get_d_type_dict: 'for col_name in types_dict: ... del types_dict[col_name]'.
\* Deleting a key while iterating over the dict makes the iteration raise.
DeleteDateTypes(w) ==
    IF Failed(w) THEN w
    ELSE IF \E col_name \in DOMAIN w.ret[1] : IsDateList(w.ret[1][col_name])
    THEN Raise(w, E_DICT_CHANGED)
    ELSE w

\* get_d_type_dict; deposit is what a fetch of an encoding file leaves.
get_d_type_dict(w, use_columns, dtype_dict, cat_cols, max_num_categories, deposit) ==
    DeleteDateTypes(
        ColumnTypes(w, EmptyDict, use_columns,
                    [conversion_table |-> dtype_dict, method |-> "dtype",
                     cat_cols |-> cat_cols, categorical_max_size |-> max_num_categories,
                     deposit |-> deposit]))

\* The Type of the single row of a column.
TypeOfUdi(w, col_name) == Entry(w, Min(EntryRows(w, col_name))).Type

\* get_date_format_dict: the first loop, over use_columns in order.
RECURSIVE DateTypeFormats(_, _, _, _)
DateTypeFormats(w, formats, use_columns, dtype_dict) ==
    IF use_columns = <<>>
    THEN Return(w, formats)
    ELSE IF Cardinality(EntryRows(w, Head(use_columns))) # 1
    THEN Raise(w, E_ITEM)
    ELSE DateTypeFormats(
             w,
             IF TypeOfUdi(w, Head(use_columns)) \in _find_date_types(dtype_dict.Type)
             THEN DictSet(formats, Head(use_columns),
                          dtype_dict.Type[TypeOfUdi(w, Head(use_columns))].items[2])
             ELSE formats,
             Tail(use_columns), dtype_dict)

\* get_date_format_dict: 'if n_categories > max_categories' for a row of
\* encoding_date_columns whose Encoding_num_members is <NA>.
ComparesNullCount(w, use_columns, dtype_dict) ==
    \E i \in DOMAIN The(w.main) :
        /\ Entry(w, i).Encoding_type # None
        /\ The(Entry(w, i).Encoding_type) \in _find_date_types(dtype_dict.Encoding_type)
        /\ InList(use_columns, Entry(w, i).UDI)
        /\ Entry(w, i).Encoding_num_members = None

\* Faulty variant: a coding of exactly max_categories members counts as
\* exceeding them.
EncodingDateRowsFromMax(w, use_columns, dtype_dict, max_categories) ==
    {i \in DOMAIN The(w.main) :
        /\ Entry(w, i).Encoding_type # None
        /\ The(Entry(w, i).Encoding_type) \in _find_date_types(dtype_dict.Encoding_type)
        /\ InList(use_columns, Entry(w, i).UDI)
        /\ The(Entry(w, i).Encoding_num_members) >= max_categories}

\* get_date_format_dict: the rows of encoding_date_columns whose coding has
\* more than max_categories members.
EncodingDateRows(w, use_columns, dtype_dict, max_categories) ==
    {i \in DOMAIN The(w.main) :
        /\ Entry(w, i).Encoding_type # None
        /\ The(Entry(w, i).Encoding_type) \in _find_date_types(dtype_dict.Encoding_type)
        /\ InList(use_columns, Entry(w, i).UDI)
        /\ The(Entry(w, i).Encoding_num_members) > max_categories}

\* get_date_format_dict: the second loop, on the formats of the first (w.ret).
EncodingDateFormats(w, rows, dtype_dict) ==
    IF Failed(w) THEN w
    ELSE Return(w,
            [col_name \in DOMAIN w.ret[1] \cup {Entry(w, i).UDI : i \in rows} |->
                IF \E i \in rows : Entry(w, i).UDI = col_name
                THEN dtype_dict.Encoding_type[
                         The(Entry(w, CHOOSE i \in rows : Entry(w, i).UDI = col_name).Encoding_type)
                     ].items[2]
                ELSE w.ret[1][col_name]])

\* get_date_format_dict after self.main_table is read.
DateFormatsOf(w, use_columns, dtype_dict, max_categories) ==
    LET formats == DateTypeFormats(w, EmptyDict, use_columns, dtype_dict)
    IN  IF ~ Failed(formats) /\ ComparesNullCount(w, use_columns, dtype_dict)
        THEN Raise(formats, E_NA_AMBIGUOUS)
        ELSE EncodingDateFormats(formats,
                                 EncodingDateRows(w, use_columns, dtype_dict, max_categories),
                                 dtype_dict)

\* get_date_format_dict
get_date_format_dict(w, use_columns, dtype_dict, max_categories) ==
    DateFormatsOf(main_table(w), use_columns, dtype_dict, max_categories)

----------------------------------------------------------------------------
(* ukb_tsv_to_parquet.py: the types a type table must hold. *)

\* The missing value of a column of strings, as Series.unique() lists it.
NaN == "nan"

\* A cell of the Encoding_type column as a list element.
CellValue(cell) == IF cell = None THEN NaN ELSE The(cell)

\* Faulty variant: only the value kinds of the codings are required, no type.
get_required_type_of_kinds_only(w, cat_cols, encoding_type) ==
    IF encoding_type
    THEN {CellValue(Entry(w, i).Encoding_type) :
             i \in {j \in DOMAIN The(w.main) : Entry(w, j).Type \in cat_cols}}
    ELSE {}

\* get_required_type on a world whose main table is loaded.
get_required_type(w, cat_cols, encoding_type) ==
    IF encoding_type
    THEN {CellValue(Entry(w, i).Encoding_type) :
             i \in {j \in DOMAIN The(w.main) : Entry(w, j).Type \in cat_cols}}
    ELSE {Entry(w, i).Type : i \in DOMAIN The(w.main)} \ cat_cols

\* create_missing_type_set
create_missing_type_set(present_types, required_types) == required_types \ present_types

\* get_missing_types_in_dtype_dict after data_dict.main_table is read.
MissingTypesOf(w, dtype_dict, cat_cols) ==
    Return(w,
           [Type |-> create_missing_type_set(DOMAIN dtype_dict.Type,
                                             get_required_type(w, cat_cols, FALSE)),
            Encoding_type |-> create_missing_type_set(DOMAIN dtype_dict.Encoding_type,
                                                      get_required_type(w, cat_cols, TRUE))])

\* get_missing_types_in_dtype_dict
get_missing_types_in_dtype_dict(w, dtype_dict, cat_cols) ==
    MissingTypesOf(main_table(w), dtype_dict, cat_cols)

----------------------------------------------------------------------------
(* utils.capture.  A stream is the console's or the StringIO of a capture; *)
(* a text value is a str.  sys_streams holds sys.stdout and sys.stderr,    *)
(* what each stream was given, the frames of the capture() generators that *)
(* are suspended at their yield, the dict out of every capture, and, as    *)
(* history, what the callers saw and wrote.                                *)

\* The most captures that are begun, and the most writes.
MaxCaptures == 2
MaxWrites == 3

Console(name) == [kind |-> "console", name |-> name, capture |-> 0, text |-> <<>>]
StringIO(capture, name) == [kind |-> "StringIO", name |-> name, capture |-> capture, text |-> <<>>]
Str(text) == [kind |-> "str", name |-> "", capture |-> 0, text |-> text]

StreamNames == {"stdout", "stderr"}
Streams ==
    {Console(name) : name \in StreamNames}
        \cup {StringIO(k, name) : k \in 1..MaxCaptures, name \in StreamNames}

InitialStreams ==
    [stdout |-> Console("stdout"),
     stderr |-> Console("stderr"),
     written |-> [st \in Streams |-> <<>>],
     frames |-> <<>>,
     outs |-> <<>>,
     active |-> <<>>,
     log |-> <<>>]

\* capture() up to its yield: the streams are kept in oldout and olderr, out
\* holds two new StringIO, which become sys.stdout and sys.stderr.
capture_enter(s) ==
    [s EXCEPT
        !.frames = Append(@, [oldout |-> s.stdout, olderr |-> s.stderr,
                              out |-> Len(s.outs) + 1]),
        !.outs = Append(@, [stdout |-> StringIO(Len(s.outs) + 1, "stdout"),
                            stderr |-> StringIO(Len(s.outs) + 1, "stderr")]),
        !.stdout = StringIO(Len(s.outs) + 1, "stdout"),
        !.stderr = StringIO(Len(s.outs) + 1, "stderr")]

\* io.StringIO.getvalue, and the str that out holds already.
getvalue(s, v) == IF v.kind = "str" THEN v ELSE Str(s.written[v])

\* Faulty variant: the finally clause puts the console's streams back.
capture_exit_to_console(s) ==
    [s EXCEPT
        !.stdout = Console("stdout"),
        !.stderr = Console("stderr"),
        !.outs[s.frames[Len(s.frames)].out] =
            [stdout |-> getvalue(s, @.stdout), stderr |-> getvalue(s, @.stderr)],
        !.frames = SubSeq(@, 1, Len(@) - 1)]

\* capture() from its yield on, the finally clause of the innermost capture:
\* it is run when the with block ends and when an exception leaves it.
capture_exit(s) ==
    [s EXCEPT
        !.stdout = s.frames[Len(s.frames)].oldout,
        !.stderr = s.frames[Len(s.frames)].olderr,
        !.outs[s.frames[Len(s.frames)].out] =
            [stdout |-> getvalue(s, @.stdout), stderr |-> getvalue(s, @.stderr)],
        !.frames = SubSeq(@, 1, Len(@) - 1)]

\* print(text) and sys.stderr.write(text): the stream that sys names gets it.
write(s, name, text) ==
    [s EXCEPT !.written[s[name]] = Append(@, text)]

----------------------------------------------------------------------------
(* Actions: one public call each, committed with its outcome. *)

Commit(w, op, arg) ==
    /\ _path_to_html' = w.path
    /\ _html_file_content' = w.html
    /\ _main_table' = w.main
    /\ _info' = w.info
    /\ _data_encoding_tables' = w.tables
    /\ _saved_encodings' = w.saved
    /\ _encoding_table_limit' = w.limit
    /\ files' = w.files
    /\ last' = [op |-> op, arg |-> arg, ret |-> w.ret, err |-> w.err, events |-> w.events]
    /\ UNCHANGED <<documents, sys_streams, default_dtype_dict>>

\* Ids a caller asks for: the ids of the documents and one that is in neither.
RequestIds == {7, 8, 9, 10, 99}

\* The recency of successful accesses, kept apart from the object's own list,
\* for the ids that are still cached.
Touch(s, id) == Append(IF InList(s, id) THEN ListRemove(s, id) ELSE s, id)
StillCached(s, w) == SelectSeq(s, LAMBDA id : id \in DOMAIN w.tables)

CommitGet(w, encoding_id) ==
    /\ Commit(w, "get_encoding_table", encoding_id)
    /\ accessed' = StillCached(IF Failed(w) THEN accessed ELSE Touch(accessed, encoding_id), w)

GetEncodingTable(encoding_id, deposit) ==
    CommitGet(get_encoding_table(World, encoding_id, deposit), encoding_id)

DownloadEncodingTable(encoding_id, deposit) ==
    /\ Commit(_download_encoding_table(World, encoding_id, deposit),
              "_download_encoding_table", encoding_id)
    /\ UNCHANGED accessed

CommitLimit(w, limit) ==
    /\ Commit(w, "set_encoding_table_limit", limit)
    /\ accessed' = StillCached(accessed, w)

SetEncodingTableLimit(limit) == CommitLimit(set_encoding_table_limit(World, limit), limit)

AssignEncodingTableLimit(limit) ==
    /\ Commit(encoding_table_limit_setter(World, limit), "encoding_table_limit", limit)
    /\ accessed' = StillCached(accessed, encoding_table_limit_setter(World, limit))

ConstructCall(path, limit) == [path |-> path, encoding_table_limit |-> limit]

Construct(path, limit) ==
    /\ Commit(Constructed(World, __init__(World, path, limit)),
              "UKB_DataDict", ConstructCall(path, limit))
    /\ accessed' = IF Failed(__init__(World, path, limit)) THEN accessed ELSE <<>>

CommitPath(w, path) ==
    /\ Commit(w, "set_path_to_html", path)
    /\ accessed' = IF w.path # _path_to_html THEN <<>> ELSE accessed

SetPathToHtml(path) == CommitPath(set_path_to_html(World, path), path)

GetHtmlFileContent ==
    /\ Commit(html_file_content(World), "html_file_content", 0)
    /\ UNCHANGED accessed

GetMainTable ==
    /\ Commit(main_table(World), "main_table", 0)
    /\ UNCHANGED accessed

GetInfo ==
    /\ Commit(info(World), "info", 0)
    /\ UNCHANGED accessed

\* Lists of columns a caller asks types for.
UseColumnLists ==
    {<<<<"eid">>>>,
     <<<<"19", "0.0">>>>,
     <<<<"19", "0.0">>, <<"54", "0.0">>>>,
     <<<<"21", "0.0">>>>,
     <<<<"55", "0.0">>>>,
     <<<<"40", "0.0">>>>,
     <<<<"53", "0.0">>>>,
     <<<<"41", "0.0">>>>,
     <<<<"eid">>, <<"53", "0.0">>, <<"21", "0.0">>, <<"19", "0.0">>>>,
     <<<<"77", "0.0">>>>}

\* Lists of columns with dates, incomplete codings and types that the default
\* type tables do not hold.
DateColumnLists ==
    {<<<<"eid">>>>,
     <<<<"53", "0.0">>>>,
     <<<<"41", "0.0">>>>,
     <<<<"42", "0.0">>>>,
     <<<<"43", "0.0">>>>,
     <<<<"60", "0.0">>>>,
     <<<<"61", "0.0">>>>,
     <<<<"70", "0.0">>>>,
     <<<<"71", "0.0">>>>,
     <<<<"77", "0.0">>>>,
     <<<<"eid">>, <<"41", "0.0">>>>,
     <<<<"eid">>, <<"53", "0.0">>, <<"19", "0.0">>>>,
     <<<<"53", "0.0">>, <<"41", "0.0">>, <<"42", "0.0">>, <<"43", "0.0">>>>,
     <<<<"19", "0.0">>, <<"70", "0.0">>>>,
     <<<<"19", "0.0">>, <<"71", "0.0">>>>}

\* The values of max_num_categories a caller passes.
MaxCategories == 1..MaxNumCategories

TypesCall(use_columns, max_num_categories) ==
    [use_columns |-> use_columns, max_num_categories |-> max_num_categories]

GetPaSchema(use_columns, max_num_categories) ==
    /\ Commit(get_pa_schema(World, use_columns, DEFAULT_PA_SCHEMA_TYPE,
                            DEFAULT_CATEGORICAL_COLUMNS, max_num_categories),
              "get_pa_schema", TypesCall(use_columns, max_num_categories))
    /\ UNCHANGED accessed

\* The encoding tables the call got, in order, as accesses.
RECURSIVE TouchAll(_, _)
TouchAll(s, events) ==
    IF events = <<>> THEN s
    ELSE TouchAll(IF Head(events).ev = "encoding_table" THEN Touch(s, Head(events).id) ELSE s,
                  Tail(events))

CommitTypes(w, arg) ==
    /\ Commit(w, "get_d_type_dict", arg)
    /\ accessed' = StillCached(TouchAll(accessed, w.events), w)

GetDTypeDict(use_columns, max_num_categories, deposit) ==
    CommitTypes(get_d_type_dict(World, use_columns, DEFAULT_DTYPE_DICT,
                                DEFAULT_CATEGORICAL_COLUMNS, max_num_categories, deposit),
                TypesCall(use_columns, max_num_categories))

GetDateFormatDict(use_columns, max_categories) ==
    /\ Commit(get_date_format_dict(World, use_columns, DEFAULT_DTYPE_DICT, max_categories),
              "get_date_format_dict", TypesCall(use_columns, max_categories))
    /\ UNCHANGED accessed

\* The type tables a caller passes: the default one with some entries taken
\* out and some added.
TypeKeysTakenOut == {<<"Sequence">>, <<"Integer">>}
TypeKeysAdded == {<<"Records">>, <<"Bulk">>}
KindKeysTakenOut == {"Integer", "ERROR"}
KindKeysAdded == {"Binary", "Octal"}

TypeTableOf(type_keys, kind_keys) ==
    [Type |-> [key \in type_keys |->
                 IF key \in DOMAIN DEFAULT_DTYPE_DICT.Type
                 THEN DEFAULT_DTYPE_DICT.Type[key] ELSE Scalar("string")],
     Encoding_type |-> [key \in kind_keys |->
                 IF key \in DOMAIN DEFAULT_DTYPE_DICT.Encoding_type
                 THEN DEFAULT_DTYPE_DICT.Encoding_type[key] ELSE Scalar("string")]]

TypeTables ==
    {TypeTableOf((DOMAIN DEFAULT_DTYPE_DICT.Type \ out) \cup added,
                 (DOMAIN DEFAULT_DTYPE_DICT.Encoding_type \ kinds_out) \cup kinds_added) :
        out \in SUBSET TypeKeysTakenOut, added \in SUBSET TypeKeysAdded,
        kinds_out \in SUBSET KindKeysTakenOut, kinds_added \in SUBSET KindKeysAdded}

GetMissingTypesInDtypeDict(dtype_dict) ==
    /\ Commit(get_missing_types_in_dtype_dict(World, dtype_dict, DEFAULT_CATEGORICAL_COLUMNS),
              "get_missing_types_in_dtype_dict", dtype_dict)
    /\ UNCHANGED accessed

\* A data dictionary in which every categorical field has a coding of stated
\* kind: the type of field 70 and the kind of coding 14 are in no default type
\* table, and field 43, an integer field, refers to a coding of dates.
DocComplete ==
    [readable |-> TRUE,
     tables |-> <<
        InfoTable("2023-01-01", "5"),
        [summary |-> Summary("Main", 0),
         rows |-> <<
            RawRow(0, <<"eid">>, Some(500), <<"Sequence">>, <<Wd("ID")>>),
            RawRow(1, <<"19", "0.0">>, Some(400), CatSingle, <<Wd("Heel")>> \o CodingRef(7, 3, "Integer")),
            RawRow(2, <<"43", "0.0">>, Some(300), <<"Integer">>, <<Wd("Year")>> \o CodingRef(11, 4, "ERROR")),
            RawRow(3, <<"70", "0.0">>, Some(200), <<"Records">>, <<Wd("Scan")>>),
            RawRow(4, <<"71", "0.0">>, Some(100), CatSingle, <<Wd("Device")>> \o CodingRef(14, 2, "Binary"))
         >>],
        CodingTable(7, <<"A7">>),
        CodingTable(14, <<"A14">>)
     >>]

\* The type tables a caller checks and then resolves with: a default table
\* without some of its keys, with some keys more.
CheckedTypeKeysTakenOut == {<<"Integer">>}
CheckedTypeKeysAdded == {<<"Records">>}
CheckedKindKeysTakenOut == {"Integer"}
CheckedKindKeysAdded == {"Binary"}

ConfigOf(defaults, type_keys, kind_keys, added) ==
    [Type |-> [key \in type_keys |->
                 IF key \in DOMAIN defaults.Type THEN defaults.Type[key] ELSE added],
     Encoding_type |-> [key \in kind_keys |->
                 IF key \in DOMAIN defaults.Encoding_type
                 THEN defaults.Encoding_type[key] ELSE added]]

CheckedConfigs(defaults, added) ==
    {ConfigOf(defaults,
              (DOMAIN defaults.Type \ out) \cup more,
              (DOMAIN defaults.Encoding_type \ kinds_out) \cup kinds_more,
              added) :
        out \in SUBSET CheckedTypeKeysTakenOut, more \in SUBSET CheckedTypeKeysAdded,
        kinds_out \in SUBSET CheckedKindKeysTakenOut,
        kinds_more \in SUBSET CheckedKindKeysAdded}

CheckedColumnLists ==
    {<<<<"eid">>, <<"43", "0.0">>>>,
     <<<<"19", "0.0">>>>,
     <<<<"70", "0.0">>, <<"71", "0.0">>>>,
     <<<<"eid">>, <<"19", "0.0">>, <<"43", "0.0">>, <<"70", "0.0">>, <<"71", "0.0">>>>}

ConfigCall(use_columns, dtype_dict, max_num_categories) ==
    [use_columns |-> use_columns, dtype_dict |-> dtype_dict,
     max_num_categories |-> max_num_categories]

GetPaSchemaWith(use_columns, pa_type_dict, max_num_categories) ==
    /\ Commit(get_pa_schema(World, use_columns, pa_type_dict,
                            DEFAULT_CATEGORICAL_COLUMNS, max_num_categories),
              "get_pa_schema", ConfigCall(use_columns, pa_type_dict, max_num_categories))
    /\ UNCHANGED accessed

GetDTypeDictWith(use_columns, dtype_dict, max_num_categories) ==
    CommitTypes(get_d_type_dict(World, use_columns, dtype_dict,
                                DEFAULT_CATEGORICAL_COLUMNS, max_num_categories, NoFile),
                ConfigCall(use_columns, dtype_dict, max_num_categories))

----------------------------------------------------------------------------
(* ukb_tsv_to_parquet.py: the key=value overrides of the command line.      *)
(* A dict is an object: default_dtype_dict holds the two dicts of           *)
(* DEFAULT_DTYPE_DICT, and a dtype_dict parameter is the name of one of     *)
(* them, so that an assignment through the parameter is an assignment to    *)
(* the object it names.                                                     *)

MaxDtypeArgs == 2

VALID_DTYPE_KEYWORDS == {"date"}

E_ARG_FORMAT == "ValueError: Invalid dtype argument format"
E_ARG_JSON == "ValueError: Failed to parse value as JSON list"
E_ARG_VALUE == "ValueError: Invalid value for"

\* A piece of dtype_arg.split("="): a plain word, or a value that starts with
\* "[" and ends with "]" together with what json.loads makes of it.
Piece(text) == [text |-> text, bracketed |-> FALSE, parses |-> TRUE, json |-> <<>>]
JsonList(items) == [text |-> "[..]", bracketed |-> TRUE, parses |-> TRUE, json |-> items]
NotJson(text) == [text |-> text, bracketed |-> TRUE, parses |-> FALSE, json |-> <<>>]

\* str.lower() of the first item of a list value.
Lower(s) == CASE s = "Date" -> "date" [] s = "DATE" -> "date" [] OTHER -> s

\* The key of a word: the keys of the "Type" dict are written <<word>> and
\* those of the "Encoding_type" dict as the word itself.
DictKey(dtype_dict, word) == IF dtype_dict = "Type" THEN <<word>> ELSE word

\* set_dtype_in_dtype_dict: dtype_dict[key] = dtype_val
set_dtype_in_dtype_dict(heap, dtype_dict, key, dtype_val) ==
    [heap EXCEPT ![dtype_dict] = DictSet(@, key, dtype_val)]

\* add_dtype_arg_to_dict
add_dtype_arg_to_dict(heap, dtype_arg, dtype_dict) ==
    IF Len(dtype_arg) # 2
    THEN [heap |-> heap, err |-> <<E_ARG_FORMAT>>]
    ELSE LET key == DictKey(dtype_dict, dtype_arg[1].text)
             value == dtype_arg[2]
         IN  IF value.bracketed
             THEN IF ~ value.parses
                  THEN [heap |-> heap, err |-> <<E_ARG_JSON>>]
                  ELSE IF /\ Len(value.json) = 2
                          /\ Lower(value.json[1]) \in VALID_DTYPE_KEYWORDS
                       THEN [heap |-> set_dtype_in_dtype_dict(heap, dtype_dict, key,
                                                              ListOf(value.json)),
                             err |-> <<>>]
                       ELSE [heap |-> heap, err |-> <<E_ARG_VALUE>>]
             ELSE [heap |-> set_dtype_in_dtype_dict(heap, dtype_dict, key,
                                                    Scalar(value.text)),
                   err |-> <<>>]

\* The loop of parse_dtype_dict_args: a ValueError is logged as a warning and
\* the next argument is taken.
RECURSIVE AddDtypeArgs(_, _, _, _)
AddDtypeArgs(heap, dtype_args, dtype_dict, warnings) ==
    IF dtype_args = <<>>
    THEN [heap |-> heap, warnings |-> warnings]
    ELSE LET added == add_dtype_arg_to_dict(heap, Head(dtype_args), dtype_dict)
         IN  AddDtypeArgs(added.heap, Tail(dtype_args), dtype_dict,
                          warnings \o added.err)

\* parse_dtype_dict_args: dtype_dict = default_dict names the dict it was
\* given, and that dict is returned.
parse_dtype_dict_args(heap, dtype_args, default_dict) ==
    LET dtype_dict == default_dict
        parsed == AddDtypeArgs(heap, dtype_args, dtype_dict, <<>>)
    IN  [heap |-> parsed.heap, ret |-> dtype_dict, warnings |-> parsed.warnings]

\* The overrides given on the command line.
TypeArgs ==
    {<<Piece("Integer"), Piece("int")>>,
     <<Piece("Records"), Piece("string")>>,
     <<Piece("Date"), JsonList(<<"Date", "%d/%m/%Y">>)>>,
     <<Piece("Time"), JsonList(<<"timestamp", "s">>)>>,
     <<Piece("Text")>>}
EncodingTypeArgs ==
    {<<Piece("Real"), Piece("int")>>,
     <<Piece("ERROR"), NotJson("[Date")>>}

RECURSIVE ArgLists(_, _)
ArgLists(args, n) ==
    IF n = 0 THEN {<<>>}
    ELSE LET shorter == ArgLists(args, n - 1)
         IN  shorter \cup {Append(l, a) : l \in {x \in shorter : Len(x) = n - 1}, a \in args}

\* main: dtype_dict[dtype_dict_type] = parse_dtype_dict_args(
\*           dtype_dict_args, DEFAULT_DTYPE_DICT[dtype_dict_type])
ParseDtypeDictArgs(dtype_dict_type, dtype_dict_encoding_type) ==
    LET of_type == parse_dtype_dict_args(default_dtype_dict, dtype_dict_type, "Type")
        of_encoding == parse_dtype_dict_args(of_type.heap, dtype_dict_encoding_type,
                                             "Encoding_type")
    IN  /\ default_dtype_dict' = of_encoding.heap
        /\ last' = [op |-> "parse_dtype_dict_args",
                    arg |-> [dtype_dict_type |-> dtype_dict_type,
                             dtype_dict_encoding_type |-> dtype_dict_encoding_type],
                    ret |-> [Type |-> of_encoding.heap[of_type.ret],
                             Encoding_type |-> of_encoding.heap[of_encoding.ret]],
                    err |-> <<>>,
                    events |-> of_type.warnings \o of_encoding.warnings]
        /\ UNCHANGED <<_path_to_html, _html_file_content, _main_table, _info,
                       _data_encoding_tables, _saved_encodings, _encoding_table_limit,
                       documents, files, accessed, sys_streams>>

ObjectVars ==
    <<_path_to_html, _html_file_content, _main_table, _info, _data_encoding_tables,
      _saved_encodings, _encoding_table_limit, documents, files, accessed, last>>

\* with capture() as out: ...   The history notes which capture is the
\* innermost and which streams the caller had when it began.
CaptureEnter ==
    /\ Len(sys_streams.outs) < MaxCaptures
    /\ sys_streams' =
          [capture_enter(sys_streams) EXCEPT
              !.active = Append(@, [capture |-> Len(sys_streams.outs) + 1,
                                    stdout |-> sys_streams.stdout,
                                    stderr |-> sys_streams.stderr])]
    /\ UNCHANGED <<ObjectVars, default_dtype_dict>>

\* The with block of the innermost capture is left, at its end or by an
\* exception raised in it.
CaptureExit(by_exception) ==
    /\ sys_streams.frames # <<>>
    /\ sys_streams' =
          [capture_exit(sys_streams) EXCEPT
              !.active = SubSeq(@, 1, Len(@) - 1),
              !.log = Append(@, [did |-> IF by_exception THEN "raise" ELSE "leave",
                                 name |-> "", text |-> 0,
                                 capture |-> sys_streams.active[Len(sys_streams.active)].capture])]
    /\ UNCHANGED <<ObjectVars, default_dtype_dict>>

\* print(text) or sys.stderr.write(text), in or out of a with block.
WriteText(name, text) ==
    /\ Cardinality({i \in 1..Len(sys_streams.log) : sys_streams.log[i].did = "write"})
          < MaxWrites
    /\ sys_streams' =
          [write(sys_streams, name, text) EXCEPT
              !.log = Append(@, [did |-> "write", name |-> name, text |-> text,
                                 capture |-> IF sys_streams.active = <<>> THEN 0
                                             ELSE sys_streams.active[Len(sys_streams.active)].capture])]
    /\ UNCHANGED <<ObjectVars, default_dtype_dict>>

\* The field ids a caller asks for, whole UDIs and first parts.
FieldIds ==
    {<<"eid">>, <<"19">>, <<"19", "0.0">>, <<"21">>, <<"21", "0.0">>,
     <<"22">>, <<"22", "0.0">>, <<"60">>, <<"77">>, <<"77", "0.0">>}

FieldCall(field_id, is_udi) == [field_id |-> field_id, is_udi |-> is_udi]

CommitField(w, arg) ==
    /\ Commit(w, "get_encoding_by_data_field", arg)
    /\ accessed' = StillCached(IF Failed(w) THEN accessed ELSE Touch(accessed, w.ret[1].id), w)

GetEncodingByDataField(field_id, is_udi, deposit) ==
    CommitField(get_encoding_by_data_field(World, field_id, is_udi, deposit),
                FieldCall(field_id, is_udi))

GetHumanReadableName(field_id, is_udi) ==
    /\ Commit(get_human_readable_name(World, field_id, is_udi),
              "get_human_readable_name", FieldCall(field_id, is_udi))
    /\ UNCHANGED accessed

\* _get_pyarrow_int_func_for_dict(num_of_categories), called on its own.
GetPyarrowIntFuncForDict(num_of_categories) ==
    /\ Commit(_get_pyarrow_int_func_for_dict(World, num_of_categories),
              "_get_pyarrow_int_func_for_dict", num_of_categories)
    /\ UNCHANGED accessed

\* The environment rewrites or removes an encoding file.
EnvWriteFile(id, f) ==
    /\ files' = [files EXCEPT ![id] = f]
    /\ UNCHANGED <<_path_to_html, _html_file_content, _main_table, _info,
                   _data_encoding_tables, _saved_encodings, _encoding_table_limit,
                   documents, accessed, last, sys_streams, default_dtype_dict>>

\* The environment takes away or gives back the read access to a document.
EnvChmodDocument(path, readable) ==
    /\ documents' = [documents EXCEPT ![path].readable = readable]
    /\ UNCHANGED <<_path_to_html, _html_file_content, _main_table, _info,
                   _data_encoding_tables, _saved_encodings, _encoding_table_limit,
                   files, accessed, last, sys_streams, default_dtype_dict>>

\* UKB_DataDict(PathA, encoding_table_limit=limit) with an empty file store.
Init ==
    /\ _path_to_html = PathA
    /\ _html_file_content = None
    /\ _main_table = None
    /\ _info = None
    /\ _data_encoding_tables = EmptyDict
    /\ _saved_encodings = <<>>
    /\ _encoding_table_limit \in 1..MaxLimit
    /\ documents = Documents
    /\ files = [id \in RequestIds |-> NoFile]
    /\ accessed = <<>>
    /\ last = [op |-> "__init__", arg |-> 0, ret |-> <<>>, err |-> <<>>, events |-> <<>>]
    /\ sys_streams = InitialStreams
    /\ default_dtype_dict = DEFAULT_DTYPE_DICT

Next ==
    \/ \E id \in RequestIds, d \in DownloadOutcomes : GetEncodingTable(id, d)
    \/ \E id \in FileIds \cup {99}, d \in DownloadOutcomes : DownloadEncodingTable(id, d)
    \/ \E n \in 0..MaxLimit : SetEncodingTableLimit(n)
    \/ \E p \in Paths : SetPathToHtml(p)
    \/ GetHtmlFileContent
    \/ GetMainTable
    \/ GetInfo
    \/ \E id \in FileIds, f \in FileStates : EnvWriteFile(id, f)

Spec == Init /\ [][Next]_vars

\* The type resolution of get_translation_dict.py on one data dictionary.
NextTypes ==
    \/ \E use_columns \in UseColumnLists, n \in MaxCategories : GetPaSchema(use_columns, n)
    \/ \E use_columns \in UseColumnLists, n \in MaxCategories, d \in DownloadOutcomes :
          GetDTypeDict(use_columns, n, d)

\* A data dictionary whose cache holds every encoding table of its document.
InitTypes == Init /\ _encoding_table_limit = MaxLimit

SpecTypes == InitTypes /\ [][NextTypes]_vars

\* The type resolution of columns with dates, incomplete codings and unknown
\* types; none of the columns has a hierarchical coding, so nothing is fetched.
NextDates ==
    \/ \E use_columns \in DateColumnLists, n \in MaxCategories : GetPaSchema(use_columns, n)
    \/ \E use_columns \in DateColumnLists, n \in MaxCategories :
          GetDTypeDict(use_columns, n, NoFile)
    \/ \E use_columns \in DateColumnLists, n \in MaxCategories :
          GetDateFormatDict(use_columns, n)

SpecDates == InitTypes /\ [][NextDates]_vars

\* get_dask_dataframe: types = gtd.get_d_type_dict(...), then date_format_dict =
\* gtd.get_date_format_dict(...) for the same columns, type table and cutoff.
get_dask_dataframe(w, col_names, dtype_dict, cat_cols, max_categories) ==
    LET types == get_d_type_dict(w, col_names, dtype_dict, cat_cols, max_categories, NoFile)
        date_format_dict ==
            get_date_format_dict([types EXCEPT !.ret = <<>>], col_names, dtype_dict,
                                 max_categories)
    IN  IF Failed(types) THEN types
        ELSE IF Failed(date_format_dict) THEN date_format_dict
        ELSE Return(date_format_dict, [types |-> types.ret[1],
                                       date_format_dict |-> date_format_dict.ret[1]])

GetDaskDataframe(col_names, max_categories) ==
    LET w == get_dask_dataframe(World, col_names, DEFAULT_DTYPE_DICT,
                                DEFAULT_CATEGORICAL_COLUMNS, max_categories)
    IN  /\ Commit(w, "get_dask_dataframe", TypesCall(col_names, max_categories))
        /\ accessed' = StillCached(TouchAll(accessed, w.events), w)

\* The two outputs of a load, and each of them on its own.
NextRouting ==
    \/ \E col_names \in DateColumnLists, n \in MaxCategories : GetDaskDataframe(col_names, n)
    \/ \E use_columns \in DateColumnLists, n \in MaxCategories :
          GetDTypeDict(use_columns, n, NoFile)
    \/ \E use_columns \in DateColumnLists, n \in MaxCategories :
          GetDateFormatDict(use_columns, n)

SpecRouting == InitTypes /\ [][NextRouting]_vars

\* The check of a type table against the data dictionary at either path.
NextCoverage ==
    \/ \E dtype_dict \in TypeTables : GetMissingTypesInDtypeDict(dtype_dict)
    \/ \E p \in {PathA, PathB} : SetPathToHtml(p)

SpecCoverage == InitTypes /\ [][NextCoverage]_vars

\* The description of the form that names a coding, its number of members,
\* the kind of its values and its being hierarchical.
FullDescription ==
    <<Wd("Uses"), Wd("data-coding"), Dg(100261), Wd("comprises"), Dg(5),
      Vl("Integer"), Wd("hierarchical")>>

\* The tokens of s at the positions K, in their order.
KeepTokens(s, K) ==
    LET F[i \in 0..Len(s)] ==
            IF i = 0 THEN <<>>
            ELSE IF i \in K THEN Append(F[i - 1], s[i]) ELSE F[i - 1]
    IN  F[Len(s)]

\* The descriptions tried: FullDescription and what is left of it when some
\* of it is missing.
Descriptions ==
    {KeepTokens(FullDescription, K) : K \in SUBSET (1..Len(FullDescription))} \ {<<>>}

\* A data dictionary with one field besides eid, described by d.
DocDescribed(d) ==
    [readable |-> TRUE,
     tables |-> <<
        InfoTable("2023-01-01", "2"),
        [summary |-> Summary("Main", 0),
         rows |-> <<
            RawRow(0, <<"eid">>, Some(500), <<"Sequence">>, <<Wd("Encoded"), Wd("anonymised")>>),
            RawRow(1, <<"30", "0.0">>, Some(400), CatSingle, d)
         >>]
     >>]

InitParse ==
    /\ _path_to_html = PathA
    /\ _html_file_content = None
    /\ _main_table = None
    /\ _info = None
    /\ _data_encoding_tables = EmptyDict
    /\ _saved_encodings = <<>>
    /\ _encoding_table_limit = MaxLimit
    /\ \E d \in Descriptions :
          documents = [p \in Paths |-> IF p = PathA THEN DocDescribed(d) ELSE Documents[p]]
    /\ files = [id \in RequestIds |-> NoFile]
    /\ accessed = <<>>
    /\ last = [op |-> "__init__", arg |-> 0, ret |-> <<>>, err |-> <<>>, events |-> <<>>]
    /\ sys_streams = InitialStreams
    /\ default_dtype_dict = DEFAULT_DTYPE_DICT

\* Reading the document and its main table, for each description.
NextParse ==
    \/ GetHtmlFileContent
    \/ GetMainTable
    \/ GetInfo

SpecParse == InitParse /\ [][NextParse]_vars

\* The description of a coding of date values, and what is left of it when
\* some of it is missing.
DatedDescription ==
    <<Wd("Taken"), Wd("Uses"), Wd("data-coding"), Dg(11), Wd("comprises"), Dg(4),
      Vl("ERROR")>>
DatedDescriptions ==
    {KeepTokens(DatedDescription, K) : K \in SUBSET (1..Len(DatedDescription))} \ {<<>>}

InitDated ==
    /\ _path_to_html = PathA
    /\ _html_file_content = None
    /\ _main_table = None
    /\ _info = None
    /\ _data_encoding_tables = EmptyDict
    /\ _saved_encodings = <<>>
    /\ _encoding_table_limit = MaxLimit
    /\ \E d \in DatedDescriptions :
          documents = [p \in Paths |-> IF p = PathA THEN DocDescribed(d) ELSE Documents[p]]
    /\ files = [id \in RequestIds |-> NoFile]
    /\ accessed = <<>>
    /\ last = [op |-> "__init__", arg |-> 0, ret |-> <<>>, err |-> <<>>, events |-> <<>>]
    /\ sys_streams = InitialStreams
    /\ default_dtype_dict = DEFAULT_DTYPE_DICT

\* Reading the main table and asking for the date formats of its field.
NextDated ==
    \/ GetMainTable
    \/ \E n \in MaxCategories : GetDateFormatDict(<<<<"30", "0.0">>>>, n)

SpecDated == InitDated /\ [][NextDated]_vars

\* The values given as limits: the ints from -2 on, 2.0, "3", None, False
\* and True.
LimitValues ==
    {Value("int", n) : n \in (0 - 2)..MaxLimit}
        \cup {Value("float", 2), Value("str", 3), Value("NoneType", 0),
              Value("bool", 0), Value("bool", 1)}

\* Objects made with any limit, their limits set to any value, their caches
\* filled from the document.
NextLimit ==
    \/ \E id \in RequestIds : GetEncodingTable(id, NoFile)
    \/ \E limit \in LimitValues : AssignEncodingTableLimit(limit)
    \/ \E path \in {PathA, PathB, PathTxt}, limit \in LimitValues : Construct(path, limit)

SpecLimit == Init /\ [][NextLimit]_vars

InitChecked ==
    /\ _path_to_html = PathA
    /\ _html_file_content = None
    /\ _main_table = None
    /\ _info = None
    /\ _data_encoding_tables = EmptyDict
    /\ _saved_encodings = <<>>
    /\ _encoding_table_limit = MaxLimit
    /\ documents = [p \in Paths |-> IF p = PathA THEN DocComplete ELSE Documents[p]]
    /\ files = [id \in RequestIds |-> NoFile]
    /\ accessed = <<>>
    /\ last = [op |-> "__init__", arg |-> 0, ret |-> <<>>, err |-> <<>>, events |-> <<>>]
    /\ sys_streams = InitialStreams
    /\ default_dtype_dict = DEFAULT_DTYPE_DICT

\* The type resolution with the type tables a caller has checked or not.
NextChecked ==
    \/ \E use_columns \in CheckedColumnLists, n \in MaxCategories,
           pa_type_dict \in CheckedConfigs(DEFAULT_PA_SCHEMA_TYPE, Scalar("pa.string")) :
          GetPaSchemaWith(use_columns, pa_type_dict, n)
    \/ \E use_columns \in CheckedColumnLists, n \in MaxCategories,
           dtype_dict \in CheckedConfigs(DEFAULT_DTYPE_DICT, Scalar("string")) :
          GetDTypeDictWith(use_columns, dtype_dict, n)

SpecChecked == InitChecked /\ [][NextChecked]_vars

\* The texts written: the first write writes "1", the next "2", and so on.
NextText == Cardinality({i \in 1..Len(sys_streams.log) : sys_streams.log[i].did = "write"}) + 1

\* Captures, nested and one after the other, with writes in and around them.
NextCapture ==
    \/ CaptureEnter
    \/ \E by_exception \in BOOLEAN : CaptureExit(by_exception)
    \/ \E name \in StreamNames : WriteText(name, NextText)

SpecCapture == InitTypes /\ [][NextCapture]_vars

\* Runs of main in one interpreter, each with its own overrides.
NextArgs ==
    \E dtype_dict_type \in ArgLists(TypeArgs, MaxDtypeArgs),
       dtype_dict_encoding_type \in ArgLists(EncodingTypeArgs, MaxDtypeArgs - 1) :
        ParseDtypeDictArgs(dtype_dict_type, dtype_dict_encoding_type)

SpecArgs == InitTypes /\ [][NextArgs]_vars

\* What a fetch leaves when fields are looked up: nothing, or a good file.
FieldDownloadOutcomes == {NoFile, File(TRUE, GoodText, FileColumns)}

\* The lookup of fields by id on the data dictionary at either path.
NextFields ==
    \/ \E field_id \in FieldIds, is_udi \in BOOLEAN, d \in FieldDownloadOutcomes :
          GetEncodingByDataField(field_id, is_udi, d)
    \/ \E field_id \in FieldIds, is_udi \in BOOLEAN : GetHumanReadableName(field_id, is_udi)
    \/ \E p \in {PathA, PathB} : SetPathToHtml(p)

SpecFields == Init /\ [][NextFields]_vars

\* The calls of Spec together with the lookup of the coding of a field, of
\* one without coding and of one with an embedded coding.
NextFailures ==
    \/ Next
    \/ \E field_id \in {<<"eid">>, <<"19", "0.0">>}, d \in FieldDownloadOutcomes :
          GetEncodingByDataField(field_id, TRUE, d)

SpecFailures == Init /\ [][NextFailures]_vars

\* The limits an object is made with here: the ints from 1 on.
PositiveLimits == {Value("int", n) : n \in 1..MaxLimit}

\* Objects made with any path, paths assigned to them, their documents read
\* and their caches filled, while the read access to the documents changes.
NextPaths ==
    \/ \E path \in Paths : SetPathToHtml(path)
    \/ \E path \in Paths, limit \in PositiveLimits : Construct(path, limit)
    \/ GetMainTable
    \/ GetInfo
    \/ \E id \in RequestIds : GetEncodingTable(id, NoFile)
    \/ \E path \in {PathA, PathB}, readable \in BOOLEAN : EnvChmodDocument(path, readable)

SpecPaths == Init /\ [][NextPaths]_vars

\* The numbers of categories tried: the small ones, and the powers of two
\* with their neighbours.
NumsOfCategories ==
    (1..MaxSmallCategories)
        \cup {2^e + d : e \in 1..MaxExponent, d \in {0 - 1, 0, 1}}

NextIntFunc == \E n \in NumsOfCategories : GetPyarrowIntFuncForDict(n)

SpecIntFunc == Init /\ [][NextIntFunc]_vars

----------------------------------------------------------------------------
(* What the claims speak of, read off the documents and the call record.   *)

Range(s) == {s[i] : i \in 1..Len(s)}
PosIn(s, x) == Min({j \in 1..Len(s) : s[j] = x})

HasEvent(evs, name) == \E i \in 1..Len(evs) : evs[i].ev = name
EventIds(evs, name) == {evs[i].id : i \in {j \in 1..Len(evs) : evs[j].ev = name}}

\* Reading, deleting or fetching a coding file.
FileStoreEvents == {"download", "read_file", "remove_file", "read_table"}
TouchesFileStore(evs) == \E i \in 1..Len(evs) : evs[i].ev \in FileStoreEvents

\* The main-table rows of the document at path p, as written in the document.
DocRows(p) == documents[p].tables[2].rows

\* The rows of p that reference coding id, in document order.
RowsUsing(p, id) ==
    {i \in 1..Len(DocRows(p)) : ExtractCodingId(DocRows(p)[i].Description) = Some(id)}

\* id is among the coding ids of the schema table of p.
InSchema(p, id) == RowsUsing(p, id) # {}

\* The owning field record (the first row with the coding) says "hierarchical".
OwnerIsHierarchical(p, id) ==
    StrContainsHierarchical(DocRows(p)[Min(RowsUsing(p, id))].Description)

\* The embedded tables of p captioned "Coding <id>".
Embedded(p, id) ==
    {i \in 1..Len(documents[p].tables) :
        documents[p].tables[i].summary = Summary("Coding", id)}

IsGet == last.op = "get_encoding_table"
Succeeded == last.err = <<>>

\* The step is the call get_encoding_table(id), the fetch (if any) leaving d.
GetStep(id, d) ==
    /\ last'.op = "get_encoding_table" /\ last'.arg = id
    /\ GetEncodingTable(id, d)

\* The step is get_encoding_table(id) for an id that is not cached.
MissStep(id, d) ==
    /\ last'.op = "get_encoding_table" /\ last'.arg = id
    /\ id \notin DOMAIN _data_encoding_tables
    /\ GetEncodingTable(id, d)

----------------------------------------------------------------------------
(* C1 *)

\* The least recently accessed of the cached ids.
LruOf(cached) ==
    CHOOSE id \in cached : \A other \in cached : PosIn(accessed, id) <= PosIn(accessed, other)

C1_Bounded ==
    /\ Len(_saved_encodings) <= _encoding_table_limit
    /\ Cardinality(DOMAIN _data_encoding_tables) <= _encoding_table_limit
    /\ DOMAIN _data_encoding_tables = Range(accessed)

C1_Insertion ==
    \A id \in RequestIds, d \in DownloadOutcomes :
        (last'.err = <<>> /\ MissStep(id, d))
        => /\ id \in DOMAIN _data_encoding_tables'
           /\ DOMAIN _data_encoding_tables' \subseteq DOMAIN _data_encoding_tables \cup {id}
           /\ (DOMAIN _data_encoding_tables \ DOMAIN _data_encoding_tables') =
                 IF Cardinality(DOMAIN _data_encoding_tables) + 1 > _encoding_table_limit
                 THEN {LruOf(DOMAIN _data_encoding_tables)}
                 ELSE {}

\* C1: after any sequence of get_encoding_table calls, limit changes and path
\* changes the cache holds at most encoding_table_limit tables, and an insertion
\* that goes over the limit evicts exactly the least recently accessed table (a
\* hit counts as an access), never the table just inserted.
C1_BoundedLruCache == [](C1_Bounded) /\ [][C1_Insertion]_vars

\* An insertion into a cache of at least two tables has just evicted one.
C1_Witness ==
    /\ IsGet /\ Succeeded
    /\ HasEvent(last.events, "evict")
    /\ Len(_saved_encodings) >= 2
    /\ last.arg \notin EventIds(last.events, "evict")

----------------------------------------------------------------------------
(* C2 *)

C2_AfterSuccess ==
    (IsGet /\ Succeeded)
    => /\ _saved_encodings # <<>>
       /\ _saved_encodings[Len(_saved_encodings)] = last.arg
       /\ last.arg \in DOMAIN _data_encoding_tables
       /\ last.ret = <<_data_encoding_tables[last.arg]>>

C2_SecondCall ==
    \A id \in RequestIds, d \in DownloadOutcomes :
        (IsGet /\ Succeeded /\ last.arg = id /\ GetStep(id, d))
        => /\ last'.err = <<>>
           /\ last'.ret = last.ret
           /\ last'.events = <<>>
           /\ files' = files
           /\ _saved_encodings'[Len(_saved_encodings')] = id

\* C2: when get_encoding_table(id) has succeeded and is called again for the
\* same id with no other call on the object in between, the second call returns
\* the cached table of the first, reads, parses and fetches nothing, and leaves
\* id last in the recency list.
C2_RepeatedGetIsCacheHit == [](C2_AfterSuccess) /\ [][C2_SecondCall]_vars

\* The hierarchical coding is returned from the cache although its file has
\* been removed since the first call.
C2_Witness ==
    /\ IsGet /\ Succeeded /\ last.arg = 9
    /\ last.events = <<>>
    /\ ~ files[9].exists
    /\ last.ret[1].src = "file"

----------------------------------------------------------------------------
(* C3 *)

LastN(s, n) == SubSeq(s, Len(s) - n + 1, Len(s))

C3_Shrink ==
    \A n \in 1..MaxLimit :
        (/\ n < Len(_saved_encodings)
         /\ last'.op = "set_encoding_table_limit" /\ last'.arg = n
         /\ SetEncodingTableLimit(n))
        => /\ last'.err = <<>>
           /\ _encoding_table_limit' = n
           /\ _saved_encodings' = LastN(_saved_encodings, n)
           /\ _data_encoding_tables' =
                 [id \in Range(LastN(_saved_encodings, n)) |-> _data_encoding_tables[id]]

\* C3: setting encoding_table_limit to a valid n below the number of cached
\* tables evicts at once; what remains is exactly the n most recently used
\* tables, in their old order.
C3_LimitShrinkKeepsMostRecent == [][C3_Shrink]_vars

\* The limit was lowered to two and a table was evicted for it.
C3_Witness ==
    /\ last.op = "set_encoding_table_limit" /\ Succeeded
    /\ last.arg = 2
    /\ HasEvent(last.events, "evict")
    /\ Len(_saved_encodings) = 2

----------------------------------------------------------------------------
(* C4 *)

C4_Reset ==
    \A p \in Paths :
        (/\ p # _path_to_html
         /\ documents[p].readable /\ p[2] = "html"
         /\ last'.op = "set_path_to_html" /\ last'.arg = p
         /\ SetPathToHtml(p))
        => /\ _path_to_html' = p
           /\ _html_file_content' = None
           /\ _main_table' = None
           /\ _info' = None
           /\ _data_encoding_tables' = EmptyDict
           /\ _saved_encodings' = <<>>

\* Everything the object holds is derived from the document at the current path.
C4_FromCurrentDocument ==
    /\ _html_file_content \subseteq {documents[_path_to_html].tables}
    /\ _main_table \subseteq {_parse_main_table(documents[_path_to_html].tables)}
    /\ _info \subseteq {InfoDict(documents[_path_to_html].tables)}
    /\ \A id \in DOMAIN _data_encoding_tables :
          _data_encoding_tables[id].src = "html"
          => /\ Embedded(_path_to_html, id) # {}
             /\ _data_encoding_tables[id].rows =
                   documents[_path_to_html].tables[Min(Embedded(_path_to_html, id))].rows
    /\ (IsGet /\ Succeeded /\ last.ret[1].src = "html")
          => last.ret[1].rows =
                documents[_path_to_html].tables[Min(Embedded(_path_to_html, last.arg))].rows

\* C4: assigning a different valid path resets the document, the main table,
\* the info and the cache (table map and recency list), so that afterwards no
\* table or schema of the old document is held or returned.
C4_PathChangeResets == [](C4_FromCurrentDocument) /\ [][C4_Reset]_vars

\* The path was changed to the second document while two tables were cached.
C4_Witness ==
    /\ last.op = "set_path_to_html" /\ Succeeded
    /\ _path_to_html = PathB
    /\ EventIds(last.events, "reset") = {2}

----------------------------------------------------------------------------
(* C5 *)

\* C5: get_encoding_table with an id that the schema table of the current
\* document does not hold fails on the validity check of
\* _retrieve_encoding_table (the cause of the error the caller gets), and
\* _download_encoding_table called directly fails on its own check; neither
\* reads, deletes or fetches a coding file.
C5_InvalidIdFailsBeforeFileAccess ==
    /\ (IsGet /\ ~ InSchema(_path_to_html, last.arg))
          => /\ last.err = <<E_NO_TABLE_READ, E_INVALID_ID>>
             /\ ~ TouchesFileStore(last.events)
             /\ last.arg \notin DOMAIN _data_encoding_tables
    /\ (last.op = "_download_encoding_table" /\ ~ InSchema(_path_to_html, last.arg))
          => /\ last.err = <<E_INVALID_ID_DOWNLOAD>>
             /\ ~ TouchesFileStore(last.events)

\* Coding 10 of the first document is asked of the second, which has none.
C5_Witness ==
    /\ IsGet /\ last.arg = 10 /\ _path_to_html = PathB
    /\ last.err # <<>>

----------------------------------------------------------------------------
(* C6 *)

\* What retrieving and inserting a table can raise.
RetrievalErrors ==
    {E_INVALID_ID, E_NO_READ_ACCESS, E_FILE_NOT_FOUND, E_SERVER_ERROR, E_NOT_IN_HTML}

\* C6: every failure of get_encoding_table reaches the caller as the
\* "No encoding table could be read" error with the original error as its
\* cause; the original error never escapes unwrapped.
C6_FailuresAreWrapped ==
    (IsGet /\ ~ Succeeded)
    => /\ Len(last.err) = 2
       /\ last.err[1] = E_NO_TABLE_READ
       /\ last.err[2] \in RetrievalErrors
       /\ last.ret = <<>>

\* The fetch left no file: open() failed and the caller got the wrapped error.
C6_Witness ==
    /\ IsGet
    /\ last.err = <<E_NO_TABLE_READ, E_FILE_NOT_FOUND>>
    /\ HasEvent(last.events, "download")

----------------------------------------------------------------------------
(* C7 *)

\* The file the call reads: the local one, or what the fetch leaves.
FileRead(id, d) == IF files[id].exists THEN files[id] ELSE d

\* The text holds the phrase "internal error prevents download of coding".
HasInternalErrorPhrase(text) == \E i \in 1..Len(text) : text[i] = InternalErrorPhrase

C7_Deleted(id) ==
    /\ last'.err = <<E_NO_TABLE_READ, E_SERVER_ERROR>>
    /\ HasEvent(last'.events, "remove_file")
    /\ ~ files'[id].exists
    /\ _data_encoding_tables' = _data_encoding_tables
    /\ _saved_encodings' = _saved_encodings

C7_Call(id, d) ==
    /\ MissStep(id, d)
    /\ InSchema(_path_to_html, id)
    /\ OwnerIsHierarchical(_path_to_html, id)
    /\ FileRead(id, d).exists

\* C7 as claimed: a file that holds the phrase is deleted and the call fails.
C7_Original ==
    [][\A id \in RequestIds, d \in DownloadOutcomes :
          (C7_Call(id, d) /\ HasInternalErrorPhrase(FileRead(id, d).text))
          => C7_Deleted(id)]_vars

\* C7, amended: for a hierarchical coding, when the readable local file or the
\* freshly fetched file holds "Sorry, internal error prevents download of
\* coding", the file is deleted and the call fails with the server-error
\* ValueError as the cause; no table is cached and the file is gone afterwards.
C7_SorryMarkerFileDeleted ==
    [][\A id \in RequestIds, d \in DownloadOutcomes :
          (/\ C7_Call(id, d)
           /\ FileRead(id, d).readable
           /\ HasSorryMarker(FileRead(id, d).text))
          => C7_Deleted(id)]_vars

\* A fetch has just left the server's error answer, and it has been deleted.
C7_Witness ==
    /\ IsGet /\ last.arg = 9
    /\ last.err = <<E_NO_TABLE_READ, E_SERVER_ERROR>>
    /\ HasEvent(last.events, "download")
    /\ HasEvent(last.events, "remove_file")
    /\ ~ files[9].exists

----------------------------------------------------------------------------
(* C8 *)

C8_FromFileStore(id) ==
    /\ ~ HasEvent(last'.events, "read_html_table")
    /\ last'.err = <<>> =>
          /\ last'.ret[1].src = "file"
          /\ HasEvent(last'.events, "read_table")
    /\ last'.err # <<>> =>
          last'.err[2] \in {E_NO_READ_ACCESS, E_FILE_NOT_FOUND, E_SERVER_ERROR}

C8_FromDocument(id) ==
    /\ ~ TouchesFileStore(last'.events)
    /\ files' = files
    /\ IF Embedded(_path_to_html, id) # {}
       THEN /\ last'.err = <<>>
            /\ last'.ret[1].src = "html"
            /\ last'.ret[1].rows =
                  documents[_path_to_html].tables[Min(Embedded(_path_to_html, id))].rows
       ELSE last'.err = <<E_NO_TABLE_READ, E_NOT_IN_HTML>>

\* C8: for an uncached valid id, get_encoding_table goes to the coding-file
\* store exactly when the first schema row with that id is hierarchical;
\* otherwise it returns the table embedded in the document under
\* "Coding <id>", touches neither the file store nor the fetch, and fails with
\* the not-found error when the document embeds no such table.
C8_SourceByOwnerHierarchy ==
    [][\A id \in RequestIds, d \in DownloadOutcomes :
          (MissStep(id, d) /\ InSchema(_path_to_html, id))
          => IF OwnerIsHierarchical(_path_to_html, id)
             THEN C8_FromFileStore(id)
             ELSE C8_FromDocument(id)]_vars

\* Coding 10, flat by its first row and hierarchical by a later one, was read
\* from the document.
C8_Witness ==
    /\ IsGet /\ Succeeded /\ last.arg = 10
    /\ _path_to_html = PathA
    /\ last.ret[1].src = "html"
    /\ HasEvent(last.events, "read_html_table")

----------------------------------------------------------------------------
(* C9 *)

IsTypesCall == last.op \in {"get_pa_schema", "get_d_type_dict"}

\* The number of members and the value kind that row i of the current
\* document states for its coding.
MembersOf(i) == ExtractNumMembers(DocRows(_path_to_html)[i].Description)
KindOf(i) == ExtractEncodingType(DocRows(_path_to_html)[i].Description)

\* The rows of the requested columns that are categorical fields with a coding.
RequestedCategoricalRows ==
    {i \in 1..Len(DocRows(_path_to_html)) :
        /\ InList(last.arg.use_columns, DocRows(_path_to_html)[i].UDI)
        /\ DocRows(_path_to_html)[i].Type \in DEFAULT_CATEGORICAL_COLUMNS
        /\ MembersOf(i) # None /\ KindOf(i) # None}

\* The type configuration the call was made with.
ConfigOfCall ==
    IF last.op = "get_pa_schema" THEN DEFAULT_PA_SCHEMA_TYPE ELSE DEFAULT_DTYPE_DICT

\* The descriptor of row i in the returned mapping.
ResolvedType(i) == last.ret[1][DocRows(_path_to_html)[i].UDI]

C9_Branch(i) ==
    /\ HasEvent(last.events, "conversion_function") /\ i \in EventIds(last.events, "conversion_function")
          => The(MembersOf(i)) <= last.arg.max_num_categories
    /\ HasEvent(last.events, "exceeding") /\ i \in EventIds(last.events, "exceeding")
          => The(MembersOf(i)) >= last.arg.max_num_categories + 1

C9_Resolved(i) ==
    IF The(MembersOf(i)) <= last.arg.max_num_categories
    THEN /\ i \in EventIds(last.events, "conversion_function")
         /\ i \notin EventIds(last.events, "exceeding")
         /\ ResolvedType(i).k = (IF last.op = "get_pa_schema" THEN "dictionary" ELSE "categorical")
         /\ ResolvedType(i).name = ConfigOfCall.Encoding_type[The(KindOf(i))].name
    ELSE /\ i \in EventIds(last.events, "exceeding")
         /\ i \notin EventIds(last.events, "conversion_function")
         /\ ResolvedType(i) = ConfigOfCall.Encoding_type[The(KindOf(i))]
         /\ ResolvedType(i).k = "scalar"

\* C9: get_pa_schema and get_d_type_dict take the categorical conversion
\* (pyarrow dictionary type, pandas categorical dtype) for a categorical column
\* whose coding has at most max_num_categories members, the equal case
\* included, and the plain type conversion_table["Encoding_type"][kind] for one
\* with max_num_categories + 1 members or more.
C9_CutoffIsInclusive ==
    IsTypesCall
    => \A i \in RequestedCategoricalRows :
          /\ C9_Branch(i)
          /\ Succeeded => C9_Resolved(i)

\* One call with max_num_categories = 2 over a coding of three members (plain
\* type) and a coding of two (dictionary type).
C9_Witness ==
    /\ last.op = "get_pa_schema" /\ Succeeded
    /\ last.arg = TypesCall(<<<<"19", "0.0">>, <<"54", "0.0">>>>, 2)
    /\ last.ret[1][<<"19", "0.0">>] = Scalar("pa.int64")
    /\ last.ret[1][<<"54", "0.0">>] = PaDictionary(8, Scalar("pa.int64"))

----------------------------------------------------------------------------
(* C10 *)

IsIntFuncCall == last.op = "_get_pyarrow_int_func_for_dict"

\* 2^width values are enough for n categories (n is below 2^31 here).
Covers(width, n) == IF width >= 31 THEN TRUE ELSE n <= 2^width

\* C10: for n >= 1 categories, _get_pyarrow_int_func_for_dict returns the
\* unsigned integer type of the smallest width among 8, 16, 32 and 64 whose
\* 2^width values cover n: 8 up to 256, 16 up to 65536, 32 for 65537.
C10_SmallestCoveringWidth ==
    (IsIntFuncCall /\ last.arg >= 1)
    => /\ Succeeded
       /\ last.ret[1] \in {8, 16, 32, 64}
       /\ Covers(last.ret[1], last.arg)
       /\ \A width \in {8, 16, 32, 64} : width < last.ret[1] => ~ Covers(width, last.arg)
       /\ last.arg \in 1..256 => last.ret[1] = 8
       /\ last.arg \in 257..65536 => last.ret[1] = 16
       /\ last.arg = 65537 => last.ret[1] = 32

\* 65537 categories got the 32-bit index.
C10_Witness ==
    /\ IsIntFuncCall /\ Succeeded
    /\ last.arg = 65537
    /\ last.ret = <<32>>

----------------------------------------------------------------------------
(* C11 *)

\* The rows of the current document with the given UDI, and the single one.
RowsOfUdi(udi) == {i \in 1..Len(DocRows(_path_to_html)) : DocRows(_path_to_html)[i].UDI = udi}
RowOfUdi(udi) == DocRows(_path_to_html)[Min(RowsOfUdi(udi))]

\* The field is categorical with a coding of more members than the cutoff of
\* the call, and the kind of the coding's values is in the given table.
AboveCutoff(udi, by_kind) ==
    /\ RowOfUdi(udi).Type \in DEFAULT_CATEGORICAL_COLUMNS
    /\ ExtractNumMembers(RowOfUdi(udi).Description) # None
    /\ ExtractEncodingType(RowOfUdi(udi).Description) # None
    /\ The(ExtractNumMembers(RowOfUdi(udi).Description)) > last.arg.max_num_categories
    /\ The(ExtractEncodingType(RowOfUdi(udi).Description)) \in DOMAIN by_kind

\* The field is not categorical and its type is in the given table.
PlainField(udi, by_type) ==
    /\ RowOfUdi(udi).Type \notin DEFAULT_CATEGORICAL_COLUMNS
    /\ RowOfUdi(udi).Type \in DOMAIN by_type

\* The descriptor of such a field is a date descriptor.
ResolvesToDate(udi, config) ==
    \/ /\ PlainField(udi, config.Type)
       /\ IsDateList(config.Type[RowOfUdi(udi).Type])
    \/ /\ AboveCutoff(udi, config.Encoding_type)
       /\ IsDateList(config.Encoding_type[The(ExtractEncodingType(RowOfUdi(udi).Description))])

\* Every requested field is in the document once and gets its descriptor from
\* a type table alone (no coding table is needed for it).
ResolvedFromTables(config) ==
    \A udi \in Range(last.arg.use_columns) :
        /\ Cardinality(RowsOfUdi(udi)) = 1
        /\ PlainField(udi, config.Type) \/ AboveCutoff(udi, config.Encoding_type)

\* C11 as claimed: get_d_type_dict returns normally, and the keys of what it
\* returns are the requested fields whose descriptor is not a date descriptor,
\* whether the date comes from the field's type or, for a categorical field
\* above the cutoff, from the kind of its coding's values.
C11_DateFieldsLeftOut ==
    (last.op = "get_d_type_dict" /\ ResolvedFromTables(DEFAULT_DTYPE_DICT))
    => /\ Succeeded
       /\ DOMAIN last.ret[1] =
             {udi \in Range(last.arg.use_columns) : ~ ResolvesToDate(udi, DEFAULT_DTYPE_DICT)}

----------------------------------------------------------------------------
(* C12 *)

\* The type of the field maps to a date descriptor.
DateByType(udi, config) ==
    /\ RowOfUdi(udi).Type \in DOMAIN config.Type
    /\ IsDateList(config.Type[RowOfUdi(udi).Type])

\* The coding of the field has more members than the cutoff of the call and
\* values of a kind that maps to a date descriptor.
DateByCoding(udi, config) ==
    /\ ExtractNumMembers(RowOfUdi(udi).Description) # None
    /\ ExtractEncodingType(RowOfUdi(udi).Description) # None
    /\ The(ExtractNumMembers(RowOfUdi(udi).Description)) > last.arg.max_num_categories
    /\ The(ExtractEncodingType(RowOfUdi(udi).Description)) \in DOMAIN config.Encoding_type
    /\ IsDateList(config.Encoding_type[The(ExtractEncodingType(RowOfUdi(udi).Description))])

\* The format strings of the date descriptors that match the field.
MatchedFormats(udi, config) ==
    {config.Type[t].items[2] : t \in {x \in {RowOfUdi(udi).Type} : DateByType(udi, config)}}
        \cup {config.Encoding_type[The(ExtractEncodingType(RowOfUdi(udi).Description))].items[2] :
                 x \in {y \in {udi} : DateByCoding(y, config)}}

\* C12: get_date_format_dict returns a mapping that holds a requested field if
\* and only if the field's type maps to a date descriptor, or its coding has
\* more than max_categories members and values of a kind that maps to a date
\* descriptor; the value is the format string of the matched descriptor, and
\* no field that was not requested is in the mapping.
C12_DateFormatsOfDateFields ==
    (/\ last.op = "get_date_format_dict"
     /\ \A udi \in Range(last.arg.use_columns) : Cardinality(RowsOfUdi(udi)) = 1)
    => /\ Succeeded
       /\ DOMAIN last.ret[1] =
             {udi \in Range(last.arg.use_columns) :
                 DateByType(udi, DEFAULT_DTYPE_DICT) \/ DateByCoding(udi, DEFAULT_DTYPE_DICT)}
       /\ \A udi \in DOMAIN last.ret[1] :
             last.ret[1][udi] \in MatchedFormats(udi, DEFAULT_DTYPE_DICT)

\* With a cutoff of two, the date field 53, the categorical field 41 and the
\* integer field 43 (codings of four date values) have a format; field 42 (a
\* coding of two date values) has none.
C12_Witness ==
    /\ last.op = "get_date_format_dict" /\ Succeeded
    /\ last.arg = TypesCall(<<<<"53", "0.0">>, <<"41", "0.0">>, <<"42", "0.0">>, <<"43", "0.0">>>>, 2)
    /\ DOMAIN last.ret[1] = {<<"53", "0.0">>, <<"41", "0.0">>, <<"43", "0.0">>}
    /\ last.ret[1][<<"41", "0.0">>] = "%Y-%m-%d"

----------------------------------------------------------------------------
(* C13 *)

IsCoverageCall == last.op = "get_missing_types_in_dtype_dict"

\* The types of the fields of the current document that are not categorical.
TypesPresent ==
    {DocRows(_path_to_html)[i].Type : i \in 1..Len(DocRows(_path_to_html))}
        \ DEFAULT_CATEGORICAL_COLUMNS

\* The kinds of coding values that the categorical fields of the current
\* document state.
KindsPresent ==
    {The(ExtractEncodingType(DocRows(_path_to_html)[i].Description)) :
        i \in {j \in 1..Len(DocRows(_path_to_html)) :
                  /\ DocRows(_path_to_html)[j].Type \in DEFAULT_CATEGORICAL_COLUMNS
                  /\ ExtractEncodingType(DocRows(_path_to_html)[j].Description) # None}}

\* C13 as claimed: get_missing_types_in_dtype_dict returns two empty sets if
\* and only if every type present outside the categorical ones is a key of
\* dtype_dict["Type"] and every kind of coding values present on a categorical
\* field is a key of dtype_dict["Encoding_type"].
C13_EmptyIffCovered ==
    (IsCoverageCall /\ Succeeded)
    => ((last.ret[1].Type = {} /\ last.ret[1].Encoding_type = {})
        <=> (/\ TypesPresent \subseteq DOMAIN last.arg.Type
             /\ KindsPresent \subseteq DOMAIN last.arg.Encoding_type))

----------------------------------------------------------------------------
(* C14 *)

\* The call asks for one field, which the document holds once, is categorical
\* and lacks the number of members or the value kind of its coding.
AsksIncompleteCoding ==
    /\ IsTypesCall
    /\ Len(last.arg.use_columns) = 1
    /\ Cardinality(RowsOfUdi(last.arg.use_columns[1])) = 1
    /\ RowOfUdi(last.arg.use_columns[1]).Type \in DEFAULT_CATEGORICAL_COLUMNS
    /\ \/ ExtractNumMembers(RowOfUdi(last.arg.use_columns[1]).Description) = None
       \/ ExtractEncodingType(RowOfUdi(last.arg.use_columns[1]).Description) = None

\* C14 as claimed: for a categorical field whose number of members or value
\* kind is missing, get_pa_schema and get_d_type_dict fail with the ValueError
\* of _determine_categorical_type, before a descriptor is built or an encoding
\* table is asked for.
C14_IncompleteCodingIsValueError ==
    AsksIncompleteCoding
    => /\ last.err = <<E_NO_NUM_MEMBERS>>
       /\ ~ HasEvent(last.events, "conversion_function")
       /\ ~ HasEvent(last.events, "exceeding")
       /\ ~ HasEvent(last.events, "encoding_table")
       /\ ~ TouchesFileStore(last.events)

----------------------------------------------------------------------------
(* C15 *)

\* The type table of the call has no entry for what the field needs: its type
\* when it is not categorical, the value kind of its coding when it is.
NeedsAbsentKey(udi, config) ==
    IF RowOfUdi(udi).Type \in DEFAULT_CATEGORICAL_COLUMNS
    THEN /\ ExtractEncodingType(RowOfUdi(udi).Description) # None
         /\ The(ExtractEncodingType(RowOfUdi(udi).Description)) \notin DOMAIN config.Encoding_type
    ELSE RowOfUdi(udi).Type \notin DOMAIN config.Type

\* The ValueErrors with which the type resolution reports a type or value kind
\* that the type table does not hold.
UnmappedTypeErrors == {E_NOT_IN_REGULAR, E_NOT_IN_ENCODING, E_SET_CATEGORIES}

\* C15 as claimed: when the type table lacks the key a requested field needs
\* (its type, or the value kind of its coding on either categorical path),
\* get_pa_schema and get_d_type_dict fail with the error for an unmapped type,
\* and the caller gets no mapping for the other fields.
C15_UnmappedTypeFailsBatch ==
    (/\ IsTypesCall
     /\ \A udi \in Range(last.arg.use_columns) : Cardinality(RowsOfUdi(udi)) = 1
     /\ \E udi \in Range(last.arg.use_columns) : NeedsAbsentKey(udi, ConfigOfCall))
    => /\ last.ret = <<>>
       /\ last.err # <<>>
       /\ last.err[1] \in UnmappedTypeErrors

----------------------------------------------------------------------------
(* C16 *)

IsNameCall == last.op = "get_human_readable_name"

\* The rows of the document whose UDI has the given part before its first "-".
RowsOfPart(part) ==
    {i \in 1..Len(DocRows(_path_to_html)) : DocRows(_path_to_html)[i].UDI[1] = part}

\* The descriptions that the document gives to the fields of that part.
DescriptionsOfPart(part) == {DocRows(_path_to_html)[i].Description : i \in RowsOfPart(part)}

\* The words "Uses data-coding" stand in d after its first k words, k > 0.
CodingStartsAfter(d, k) ==
    /\ k >= 1
    /\ k + 2 <= Len(d)
    /\ d[k + 1] = Wd("Uses")
    /\ d[k + 2] = Wd("data-coding")

\* name is d up to the first " Uses data-coding", all of d when d has none.
IsNameIn(name, d) ==
    /\ Len(name) <= Len(d)
    /\ name = SubSeq(d, 1, Len(name))
    /\ \A k \in 1..(Len(name) - 1) : ~ CodingStartsAfter(d, k)
    /\ Len(name) < Len(d) => CodingStartsAfter(d, Len(name))

\* C16: get_human_readable_name(field_id, is_udi=False) with a field_id that
\* is the part before the first "-" of several UDIs returns the description
\* they share, cut before its first " Uses data-coding", when their
\* descriptions are all the same, and fails with the ValueError for an
\* ambiguous field_id when two of them differ.
C16_NameByPartialId ==
    (/\ IsNameCall
     /\ ~ last.arg.is_udi
     /\ Len(last.arg.field_id) = 1
     /\ Cardinality(RowsOfPart(last.arg.field_id[1])) >= 2)
    => IF Cardinality(DescriptionsOfPart(last.arg.field_id[1])) = 1
       THEN /\ Succeeded
            /\ \A d \in DescriptionsOfPart(last.arg.field_id[1]) : IsNameIn(last.ret[1], d)
       ELSE last.err = <<E_AMBIGUOUS>>

\* The name of "21" is asked for where 21-0.0 and 21-1.0 are both "Weight"
\* followed by a reference to coding 9.
C16_Witness ==
    /\ IsNameCall
    /\ _path_to_html = PathA
    /\ last.arg = FieldCall(<<"21">>, FALSE)
    /\ Cardinality(RowsOfPart("21")) = 2
    /\ last.ret = << <<Wd("Weight")>> >>

\* The name of "22" is asked for where 22-0.0 is "Height" and 22-1.0 "Stature".
C16_AmbiguousReached ==
    /\ IsNameCall
    /\ _path_to_html = PathA
    /\ last.arg = FieldCall(<<"22">>, FALSE)
    /\ last.err = <<E_AMBIGUOUS>>

----------------------------------------------------------------------------
(* C17 *)

FieldLookups == {"get_encoding_by_data_field", "get_human_readable_name"}

\* The document has no field for the id in the mode of the call: no UDI that
\* is the whole id (is_udi), no UDI whose part before the first "-" is the
\* whole id (otherwise).
NoFieldFor(call) ==
    IF call.is_udi
    THEN RowsOfUdi(call.field_id) = {}
    ELSE Len(call.field_id) # 1 \/ RowsOfPart(call.field_id[1]) = {}

\* The ValueErrors that say that the field id was not found.
FieldNotFoundErrors ==
    {E_FIELD_NOT_IN_UDI, E_FIELD_NOT_IN_PART, E_NAME_NOT_IN_UDI, E_NAME_NOT_IN_PART}

\* C17: a lookup by a field id that matches no field in the mode of the call
\* fails with the ValueError for a field id that is not found ("21" as a whole
\* UDI, "19-0.0" as a first part), and the step retrieves no encoding table
\* and leaves the cache and the encoding files as they were.
C17_NoMatchIsNotFound ==
    [][(/\ last'.op \in FieldLookups
        /\ NoFieldFor(last'.arg))
       => /\ Len(last'.err) = 1
          /\ last'.err[1] \in FieldNotFoundErrors
          /\ last'.ret = <<>>
          /\ ~ HasEvent(last'.events, "encoding_table")
          /\ ~ HasEvent(last'.events, "read_html_table")
          /\ ~ TouchesFileStore(last'.events)
          /\ _data_encoding_tables' = _data_encoding_tables
          /\ _saved_encodings' = _saved_encodings
          /\ files' = files]_vars

\* "21" is looked up as a whole UDI while the cache holds a table.
C17_Witness ==
    /\ last.op = "get_encoding_by_data_field"
    /\ last.arg = FieldCall(<<"21">>, TRUE)
    /\ last.err = <<E_FIELD_NOT_IN_UDI>>
    /\ _saved_encodings # <<>>

\* "19-0.0" is looked up as a first part while the cache holds a table.
C17_PartialReached ==
    /\ last.op = "get_encoding_by_data_field"
    /\ last.arg = FieldCall(<<"19", "0.0">>, FALSE)
    /\ last.err = <<E_FIELD_NOT_IN_PART>>
    /\ _saved_encodings # <<>>

----------------------------------------------------------------------------
(* C18 *)

\* The numbers that the descriptions hold.
NumbersDescribed == {5, 100261}

\* The tokens of part stand in d, one after the other.
Holds(d, part) ==
    \E k \in 0..(Len(d) - Len(part)) : SubSeq(d, k + 1, k + Len(part)) = part

\* d names a coding: "Uses data-coding <id>".
NamesCoding(d) ==
    \E id \in NumbersDescribed : Holds(d, <<Wd("Uses"), Wd("data-coding"), Dg(id)>>)

\* d says how many members the coding it names has: "... comprises <count>".
SaysNumMembers(d) ==
    \E id, n \in NumbersDescribed :
        Holds(d, <<Wd("Uses"), Wd("data-coding"), Dg(id), Wd("comprises"), Dg(n)>>)

\* d says of what kind the values are: "... comprises <count> <kind>-valued".
SaysKind(d) ==
    \E id, n \in NumbersDescribed :
        Holds(d, <<Wd("Uses"), Wd("data-coding"), Dg(id), Wd("comprises"), Dg(n),
                   Vl("Integer")>>)

\* What a row of the main table has of its description.
DerivedOf(row) ==
    [Encoding_id |-> row.Encoding_id,
     Encoding_num_members |-> row.Encoding_num_members,
     Encoding_type |-> row.Encoding_type,
     Is_hierarchical |-> row.Is_hierarchical,
     Has_encoding |-> row.Has_encoding]

\* C18: a row whose description is "Uses data-coding 100261 comprises 5
\* Integer-valued hierarchical" has Encoding_id 100261, Encoding_num_members 5,
\* Encoding_type Integer, Is_hierarchical and Has_encoding true; where the
\* description lacks the coding id, the number of members or the kind, the
\* row has a null for it, and reading the main table raises no error.
C18_DescriptionParsed ==
    /\ last.op = "main_table" => Succeeded
    /\ _main_table # None =>
          \A i \in 1..Len(The(_main_table)) :
             /\ The(_main_table)[i].Description = DocRows(_path_to_html)[i].Description
             /\ The(_main_table)[i].Description = FullDescription
                   => DerivedOf(The(_main_table)[i])
                        = [Encoding_id |-> Some(100261),
                           Encoding_num_members |-> Some(5),
                           Encoding_type |-> Some("Integer"),
                           Is_hierarchical |-> TRUE,
                           Has_encoding |-> TRUE]
             /\ ~ NamesCoding(The(_main_table)[i].Description)
                   => /\ The(_main_table)[i].Encoding_id = None
                      /\ ~ The(_main_table)[i].Has_encoding
             /\ ~ SaysNumMembers(The(_main_table)[i].Description)
                   => The(_main_table)[i].Encoding_num_members = None
             /\ ~ SaysKind(The(_main_table)[i].Description)
                   => The(_main_table)[i].Encoding_type = None

\* The main table is read of a document whose field has the full description.
C18_Witness ==
    /\ last.op = "main_table"
    /\ Succeeded
    /\ _main_table # None
    /\ The(_main_table)[2].Description = FullDescription
    /\ The(_main_table)[2].Encoding_id = Some(100261)

\* The main table is read of a document whose field names a coding but not
\* the number of its members.
C18_PartReached ==
    /\ last.op = "main_table"
    /\ _main_table # None
    /\ The(_main_table)[2].Description
          = <<Wd("Uses"), Wd("data-coding"), Dg(100261), Dg(5), Vl("Integer")>>
    /\ The(_main_table)[2].Encoding_id = Some(100261)
    /\ The(_main_table)[2].Encoding_num_members = None
    /\ The(_main_table)[2].Encoding_type = None

----------------------------------------------------------------------------
(* C19 *)

\* The parsed document, the main table and the info of the object.
Derived == <<_html_file_content, _main_table, _info>>

\* A step of the object: a call, which leaves its record in last.  The other
\* steps are those of the file store.
IsCall == last' # last

\* What a step may leave of a derived value: the value itself once there is
\* one, not derived again by a call, and a value where there was none only by
\* the call's own derivation.
KeptOrDerived(before, after, derivation) ==
    /\ before # None => after = before
    /\ (IsCall /\ before # None) => ~ HasEvent(last'.events, derivation)
    /\ (before = None /\ after # None) => (IsCall /\ HasEvent(last'.events, derivation))

\* C19: while the path stays what it is, the parsed document, the main table
\* and the info are each derived at most once: a step that has one of them
\* keeps it and does not derive it again, whatever the step is (an access, a
\* get_encoding_table, a new encoding_table_limit, the same path assigned
\* again, a path that is refused), and no such step empties the cache of
\* encoding tables; assigning the same path changes nothing at all.  What is
\* derived is derived from the document at the path, and the three are
\* dropped only by the assignment of another path.
C19_DerivedOncePerPath ==
    [][/\ _path_to_html' = _path_to_html
          => /\ KeptOrDerived(_html_file_content, _html_file_content', "open_html")
             /\ KeptOrDerived(_main_table, _main_table', "parse_main")
             /\ KeptOrDerived(_info, _info', "parse_info")
             /\ IsCall => ~ HasEvent(last'.events, "reset")
             /\ (IsCall /\ last'.op \in {"html_file_content", "main_table", "info",
                                         "set_path_to_html"})
                   => /\ _data_encoding_tables' = _data_encoding_tables
                      /\ _saved_encodings' = _saved_encodings
             /\ (IsCall /\ last'.op = "set_path_to_html" /\ last'.arg = _path_to_html)
                   => /\ Derived' = Derived
                      /\ last'.err = <<>>
                      /\ last'.events = <<>>
       /\ (_html_file_content' # _html_file_content /\ _html_file_content' # None)
          => The(_html_file_content') = documents[_path_to_html'].tables
       /\ (_main_table' # _main_table /\ _main_table' # None)
          => The(_main_table') = _parse_main_table(documents[_path_to_html'].tables)
       /\ _path_to_html' # _path_to_html
          => /\ last'.op = "set_path_to_html"
             /\ Derived' = <<None, None, None>>]_vars

\* The path the object has is assigned again when the document, the main
\* table and the info are parsed and the cache holds a table.
C19_Witness ==
    /\ last.op = "set_path_to_html"
    /\ last.arg = _path_to_html
    /\ _html_file_content # None
    /\ _main_table # None
    /\ _info # None
    /\ _saved_encodings # <<>>

----------------------------------------------------------------------------
(* C20 *)

\* The value is a positive integer.  In Python True is the integer 1 and
\* False the integer 0.
IsPositiveInteger(v) == v.type \in {"int", "bool"} /\ v.n > 0

\* C20: a limit that is not a positive integer (0, a negative int, a float,
\* a str, None) is refused with the ValueError for the limit, when an object
\* is made with it on a valid path and when it is assigned to
\* encoding_table_limit; the refused assignment leaves the limit and the
\* cached tables as they were.
C20_InvalidLimitRejected ==
    [][/\ (last'.op = "encoding_table_limit" /\ ~ IsPositiveInteger(last'.arg))
          => /\ last'.err = <<E_BAD_LIMIT>>
             /\ _encoding_table_limit' = _encoding_table_limit
             /\ _data_encoding_tables' = _data_encoding_tables
             /\ _saved_encodings' = _saved_encodings
       /\ (/\ last'.op = "UKB_DataDict"
           /\ ~ IsPositiveInteger(last'.arg.encoding_table_limit)
           /\ documents[last'.arg.path].readable
           /\ last'.arg.path[2] = "html")
          => last'.err = <<E_BAD_LIMIT>>]_vars

\* The limit -1 is assigned to an object whose cache holds two tables.
C20_Witness ==
    /\ last.op = "encoding_table_limit"
    /\ last.arg = Value("int", 0 - 1)
    /\ last.err = <<E_BAD_LIMIT>>
    /\ Len(_saved_encodings) = 2
    /\ _encoding_table_limit \in 2..MaxLimit

\* An object is made with the limit -1 on a valid path.
C20_ConstructionReached ==
    /\ last.op = "UKB_DataDict"
    /\ last.arg = ConstructCall(PathB, Value("int", 0 - 1))
    /\ last.err = <<E_BAD_LIMIT>>

----------------------------------------------------------------------------
(* C21 *)

\* How many of the events are runs of curl.
NumFetches(evs) == Cardinality({i \in 1..Len(evs) : evs[i].ev = "download"})

\* The call get_encoding_table(id) finds id not cached, its coding
\* hierarchical and no file at the templated path.
FetchDue(id) ==
    /\ id \notin DOMAIN _data_encoding_tables
    /\ InSchema(_path_to_html, id)
    /\ OwnerIsHierarchical(_path_to_html, id)
    /\ ~ files[id].exists

\* The fetch leaves no file, or the server's error answer.
FetchFails(d) == ~ d.exists \/ HasSorryMarker(d.text)

\* C21: a call of get_encoding_table runs curl at most once, and only when
\* the id is not cached, its coding is hierarchical and the file is absent;
\* not on a hit, not for a flat coding, not when the file is there.  A fetch
\* that fails is not run again in the call: the call fails and no file is
\* left.
C21_AtMostOneFetch ==
    [][(last'.op = "get_encoding_table" /\ last' # last)
       => /\ NumFetches(last'.events) <= 1
          /\ NumFetches(last'.events) = 1 => FetchDue(last'.arg)
          /\ FetchDue(last'.arg)
                => \A d \in DownloadOutcomes :
                      (FetchFails(d) /\ GetEncodingTable(last'.arg, d))
                      => /\ NumFetches(last'.events) = 1
                         /\ last'.err # <<>>
                         /\ ~ files'[last'.arg].exists
                         /\ last'.arg \notin DOMAIN _data_encoding_tables']_vars

\* Coding 9, hierarchical and not cached, is read from the file that is at
\* its path, without a fetch.
C21_Witness ==
    /\ IsGet /\ last.arg = 9 /\ Succeeded
    /\ _path_to_html = PathA
    /\ NumFetches(last.events) = 0
    /\ HasEvent(last.events, "read_table")
    /\ 9 \in DOMAIN _data_encoding_tables

\* Coding 9 is fetched once and the fetch leaves nothing.
C21_FailedFetchReached ==
    /\ IsGet /\ last.arg = 9
    /\ NumFetches(last.events) = 1
    /\ last.err = <<E_NO_TABLE_READ, E_FILE_NOT_FOUND>>

----------------------------------------------------------------------------
(* C22 *)

IsConfigCall == last.op \in {"get_pa_schema", "get_d_type_dict"}

\* get_missing_types_in_dtype_dict of the object with the type table of the
\* call gives two empty sets.
NothingMissing ==
    /\ get_missing_types_in_dtype_dict(
           World, last.arg.dtype_dict, DEFAULT_CATEGORICAL_COLUMNS).ret[1].Type = {}
    /\ get_missing_types_in_dtype_dict(
           World, last.arg.dtype_dict, DEFAULT_CATEGORICAL_COLUMNS).ret[1].Encoding_type = {}

\* The call failed for a key that the type table lacks: with one of the
\* ValueErrors that say so, or with the KeyError of the lookup itself, bare or
\* as the cause of the ValueError for setting categories.
FailedForAbsentKey ==
    \/ last.err \in {<<E_NOT_IN_REGULAR>>, <<E_NOT_IN_ENCODING>>, <<E_KEY>>}
    \/ last.err = <<E_SET_CATEGORIES, E_KEY>>

\* C22: when get_missing_types_in_dtype_dict finds nothing missing in a type
\* table, get_pa_schema and get_d_type_dict with that table and the same
\* categorical types do not fail for a type or value kind without a key,
\* whatever the columns and the cutoff.
C22_CoveredNeverUnmapped ==
    (IsConfigCall /\ NothingMissing) => ~ FailedForAbsentKey

\* The types of the fields 70 and 71 are resolved with a table that has the
\* keys "Records" and "Binary" and lacks nothing.
C22_Witness ==
    /\ last.op = "get_d_type_dict"
    /\ NothingMissing
    /\ last.arg.use_columns = <<<<"70", "0.0">>, <<"71", "0.0">>>>
    /\ last.arg.max_num_categories = 1
    /\ Succeeded
    /\ DOMAIN last.ret[1] = {<<"70", "0.0">>, <<"71", "0.0">>}

\* A table that lacks keys is used all the same, and the resolution fails.
C22_UncheckedFailureReached ==
    /\ IsConfigCall
    /\ ~ NothingMissing
    /\ FailedForAbsentKey

----------------------------------------------------------------------------
(* C23 *)

\* The texts written to sys.stdout or sys.stderr (name) while capture k was
\* the innermost one, in the order of writing; k = 0: while none was active.
WrittenIn(name, k) ==
    [i \in 1..Len(SelectSeq(sys_streams.log,
                            LAMBDA e : e.did = "write" /\ e.name = name /\ e.capture = k)) |->
        SelectSeq(sys_streams.log,
                  LAMBDA e : e.did = "write" /\ e.name = name /\ e.capture = k)[i].text]

\* The captures that have been left.
Left == {sys_streams.log[i].capture :
            i \in {j \in 1..Len(sys_streams.log) : sys_streams.log[j].did # "write"}}

\* Every capture that has been left holds, as strings, what was written while
\* it was the innermost one, and the console got what was written outside.
CapturedAsWritten ==
    /\ \A k \in Left, name \in StreamNames :
          sys_streams.outs[k][name] = Str(WrittenIn(name, k))
    /\ \A name \in StreamNames :
          sys_streams.written[Console(name)] = WrittenIn(name, 0)

\* C23: when a capture is left, at the end of its with block or by an
\* exception, sys.stdout and sys.stderr are again the streams that they were
\* when the capture began; and what is written in a capture is in the strings
\* of that capture only, each of nested captures holding what was written
\* while it was the innermost one.
C23_CaptureRestoresStreams ==
    [][/\ Len(sys_streams'.active) < Len(sys_streams.active)
          => /\ sys_streams'.stdout = sys_streams.active[Len(sys_streams.active)].stdout
             /\ sys_streams'.stderr = sys_streams.active[Len(sys_streams.active)].stderr
       /\ CapturedAsWritten']_vars

\* A capture within a capture, with a write in each and one after both; the
\* inner one is left by an exception.
C23_Witness ==
    /\ Left = {1, 2}
    /\ sys_streams.log[1] = [did |-> "write", name |-> "stdout", text |-> 1, capture |-> 1]
    /\ sys_streams.log[2] = [did |-> "write", name |-> "stderr", text |-> 2, capture |-> 2]
    /\ sys_streams.log[3] = [did |-> "raise", name |-> "", text |-> 0, capture |-> 2]
    /\ Len(sys_streams.log) = 5
    /\ sys_streams.log[5] = [did |-> "write", name |-> "stdout", text |-> 3, capture |-> 0]
    /\ sys_streams.outs[1].stdout = Str(<<1>>)
    /\ sys_streams.outs[2].stderr = Str(<<2>>)
    /\ sys_streams.stdout = Console("stdout")

----------------------------------------------------------------------------
\* C24: applying key=value overrides through parse_dtype_dict_args leaves the
\* default type mapping as the module defines it, and a call made with no
\* overrides returns the original defaults.
NoOverrides ==
    /\ last.op = "parse_dtype_dict_args"
    /\ last.arg.dtype_dict_type = <<>>
    /\ last.arg.dtype_dict_encoding_type = <<>>

C24_OverridesLeaveDefaults ==
    /\ default_dtype_dict = DEFAULT_DTYPE_DICT
    /\ NoOverrides => last.ret = DEFAULT_DTYPE_DICT

----------------------------------------------------------------------------
\* C25: in every reachable state the recency list holds no id twice and holds
\* exactly the keys of the table map; no call fails because a hit did not find
\* its id in the list or an eviction its victim in the map, and after a
\* successful get_encoding_table the requested id is in the map.
C25_RecencyListIsKeySet ==
    /\ Cardinality(Range(_saved_encodings)) = Len(_saved_encodings)
    /\ Range(_saved_encodings) = DOMAIN _data_encoding_tables
    /\ E_NOT_IN_LIST \notin Range(last.err)
    /\ E_KEY \notin Range(last.err)
    /\ (IsGet /\ Succeeded) => last.arg \in DOMAIN _data_encoding_tables

\* A hit on a cache of several tables has moved its id to the end of the list.
C25_Witness ==
    /\ IsGet /\ Succeeded
    /\ last.events = <<>>
    /\ Len(_saved_encodings) >= 2
    /\ _saved_encodings[Len(_saved_encodings)] = last.arg
    /\ \E i \in 1..(Len(_saved_encodings) - 1) : _saved_encodings[i] > last.arg

\* An insertion has evicted the oldest id from the list and from the map.
C25_EvictionReached ==
    /\ IsGet /\ Succeeded
    /\ HasEvent(last.events, "evict")
    /\ Len(_saved_encodings) = _encoding_table_limit
    /\ EventIds(last.events, "evict") \cap DOMAIN _data_encoding_tables = {}

----------------------------------------------------------------------------
\* C26: a get_encoding_table call that fails, called directly or for the
\* coding of a field, leaves the table map and the recency list as they were
\* before the call and evicts nothing.
C26_FailedGetKeepsCache ==
    [][(/\ last'.op \in {"get_encoding_table", "get_encoding_by_data_field"}
        /\ last'.err # <<>>)
       => /\ _data_encoding_tables' = _data_encoding_tables
          /\ _saved_encodings' = _saved_encodings
          /\ ~ HasEvent(last'.events, "evict")]_vars

\* A get has failed on a full cache of several tables.
C26_Witness ==
    /\ IsGet /\ ~ Succeeded
    /\ Len(_saved_encodings) >= 2
    /\ Len(_saved_encodings) = _encoding_table_limit
    /\ last.arg \notin DOMAIN _data_encoding_tables

\* The coding of a field without coding has been asked for on a cache that
\* holds a table.
C26_NullIdReached ==
    /\ last.op = "get_encoding_by_data_field"
    /\ last.arg = FieldCall(<<"eid">>, TRUE)
    /\ last.err = <<E_NO_TABLE_READ, E_INVALID_ID>>
    /\ _saved_encodings # <<>>

----------------------------------------------------------------------------
\* C27 as claimed: for the same fields, type table and cutoff the two outputs
\* are made, their key sets are disjoint and together are the requested
\* fields, and a field that is neither categorical nor of a type that maps to
\* a date descriptor is not among the date formats.
C27_EveryFieldInOneOutput ==
    (last.op = "get_dask_dataframe" /\ ResolvedFromTables(DEFAULT_DTYPE_DICT))
    => /\ Succeeded
       /\ DOMAIN last.ret[1].types \cap DOMAIN last.ret[1].date_format_dict = {}
       /\ DOMAIN last.ret[1].types \cup DOMAIN last.ret[1].date_format_dict
             = Range(last.arg.use_columns)
       /\ \A udi \in DOMAIN last.ret[1].date_format_dict :
             \/ RowOfUdi(udi).Type \in DEFAULT_CATEGORICAL_COLUMNS
             \/ DateByType(udi, DEFAULT_DTYPE_DICT)

----------------------------------------------------------------------------
\* C28: in every row of a derived main table a value kind comes with a number
\* of members, a number of members comes with a coding id, and Has_encoding
\* is true exactly when there is a coding id; and get_date_format_dict never
\* fails on comparing a missing number of members with the cutoff.
C28_KindCountIdNested ==
    /\ _main_table # None
       => \A i \in DOMAIN The(_main_table) :
             LET row == The(_main_table)[i]
             IN  /\ row.Encoding_type # None => row.Encoding_num_members # None
                 /\ row.Encoding_num_members # None => row.Encoding_id # None
                 /\ row.Has_encoding <=> row.Encoding_id # None
    /\ last.op = "get_date_format_dict" => E_NA_AMBIGUOUS \notin Range(last.err)

\* The field's coding has date values and more members than the cutoff: its
\* number of members was compared and it has a format.
C28_Witness ==
    /\ last.op = "get_date_format_dict" /\ Succeeded
    /\ _main_table # None
    /\ The(_main_table)[2].Encoding_type = Some("ERROR")
    /\ The(_main_table)[2].Encoding_num_members = Some(4)
    /\ The(The(_main_table)[2].Encoding_num_members) > last.arg.max_num_categories
    /\ <<"30", "0.0">> \in DOMAIN last.ret[1]

\* A description with a "<kind>-valued" word and no number of members before
\* it: the row has no value kind, and the call returns no format.
C28_KindWordAloneReached ==
    /\ last.op = "get_date_format_dict" /\ Succeeded
    /\ _main_table # None
    /\ \E j \in 1..Len(DocRows(_path_to_html)[2].Description) :
          DocRows(_path_to_html)[2].Description[j].k = "v"
    /\ The(_main_table)[2].Encoding_type = None
    /\ The(_main_table)[2].Encoding_num_members = None
    /\ The(_main_table)[2].Encoding_id # None
    /\ last.ret[1] = EmptyDict

----------------------------------------------------------------------------
\* C29 as claimed: the Column of every row of the derived main table is the
\* column index that the row has in the document, whatever its Count.
C29_ColumnIndexKept ==
    _main_table # None
    => \A i \in DOMAIN The(_main_table) :
          The(_main_table)[i].Column = Some(DocRows(_path_to_html)[i].Column)

----------------------------------------------------------------------------
(* C30 *)

\* The path cannot be read or does not end in ".html".
InvalidPath(path) == ~ documents[path].readable \/ path[2] # "html"

\* The step is an assignment obj.path_to_html = last'.arg: the calls record
\* themselves in last, and only the environment changes the documents.
IsAssignment ==
    /\ last'.op = "set_path_to_html"
    /\ documents' = documents

\* The step is a construction UKB_DataDict(last'.arg.path, ...).
IsConstruction ==
    /\ last'.op = "UKB_DataDict"
    /\ documents' = documents

\* The object is as it was before the step.
ObjectKept ==
    /\ _path_to_html' = _path_to_html
    /\ _html_file_content' = _html_file_content
    /\ _main_table' = _main_table
    /\ _info' = _info
    /\ _data_encoding_tables' = _data_encoding_tables
    /\ _saved_encodings' = _saved_encodings

C30_CurrentPathReached ==
    /\ last.op = "set_path_to_html"
    /\ last.arg = _path_to_html
    /\ last.err = <<>>
    /\ ~ documents[_path_to_html].readable

\* A construction has been rejected.
C30_ConstructionReached ==
    /\ last.op = "UKB_DataDict"
    /\ last.err = <<E_BAD_PATH>>
    /\ _saved_encodings # <<>>

====
